---- MODULE Spec2Model ----
(***************************************************************************)
(* The agentic conversation engine of minmax-code: the useChat hook        *)
(* (sendMessage loop, cancelStream, clearMessages, loadMessages), the      *)
(* useSession hook and the SQLite message table, streamChat's accumulation *)
(* of stream deltas, parseModelOutput, the tool registry and executeTool,  *)
(* and the ChatInterface handlers that drive them.                         *)
(*                                                                         *)
(* Text is modelled as a sequence of tokens: a token is a run of plain     *)
(* text or one whole tag.                                                  *)
(***************************************************************************)
EXTENDS Integers, Sequences, FiniteSets, TLC

(***************************************************************************)
(* Bounds of the model.                                                    *)
(***************************************************************************)
MaxTurns == 2
MaxRounds == 2
MaxChunks == 2
MaxStreamed == 2
MaxSessions == 2
MaxClock == 1
MaxUiOps == 1
MaxRows == 4
MaxRawLen == 4
MaxFileLen == 3
MaxOldLen == 2
MaxDeltas == 3

Turns == 1..MaxTurns

(***************************************************************************)
(* Program constants.                                                      *)
(***************************************************************************)
TOKEN_WARN == 180000
TOKEN_LIMIT == 200000
NoSession == 0
NoTurn == 0

(***************************************************************************)
(* Tool registry (core/tools.ts).                                          *)
(***************************************************************************)
builtinTools ==
  <<"bash", "read_file", "write_file", "edit_file",
    "glob", "grep", "list_directory", "web_search">>

SeqRange(s) == {s[i] : i \in 1..Len(s)}

TOOL_REGISTRY == SeqRange(builtinTools)

READ_ONLY_TOOLS == {"read_file", "glob", "grep", "list_directory", "web_search"}

\* Names that start with "mcp__": one tool of a connected server, one of a
\* server that is not connected.
McpPrefixed == {"mcp__srv__tool", "mcp__gone__tool"}
McpConnected == {"mcp__srv__tool"}

startsWithMcp(name) == name \in McpPrefixed

getMCPToolDefinitions == <<"mcp__srv__tool">>

getToolDefinitions == builtinTools \o getMCPToolDefinitions

IsReadOnlyName(n) == n \in READ_ONLY_TOOLS

getReadOnlyToolDefinitions == SelectSeq(builtinTools, IsReadOnlyName)

\* Result texts.
PlanDenied == "Error: Tool is not available in PLAN mode"
UnknownTool == "Error: Unknown tool"
McpNotFound == "Error: MCP tool not found"
McpError == "MCP Error"
ToolOk == "ok"
ToolThrown == "Error: thrown"

ErrorTexts == {PlanDenied, UnknownTool, McpNotFound, ToolThrown}

\* What the invoked function does: returns a string, an object with a result
\* field, some other object, or throws.
Behaviours == {"string", "object", "other", "throw"}
Modes == {"PLAN", "BUILDER"}
CallModes == Modes \cup {"undefined"}

\* A bridge that answers for tools it does not have.
callMCPTool_Ok(name, behav) == ToolOk

callMCPTool(name, behav) ==
  IF name \in McpConnected
    THEN IF behav = "throw" THEN McpError ELSE ToolOk
    ELSE McpNotFound

\* The tool name that a result text quotes ("" when it quotes none).
quotedName(text, name) ==
  IF text \in {PlanDenied, UnknownTool, McpNotFound} THEN name ELSE ""

\* The registry lookup and dispatch of executeTool, after the PLAN gate.
\* outcome is "return" or "throw", text is the result text, names the tool
\* name quoted in the text, lookup tells whether the registry was consulted,
\* invoked names the function that was called ("" when none).
executeToolDispatch(name, behav) ==
  IF name \in TOOL_REGISTRY
    THEN IF behav = "throw"
           THEN [outcome |-> "throw", text |-> ToolThrown, lookup |-> TRUE,
                 invoked |-> name, names |-> ""]
           ELSE [outcome |-> "return", text |-> ToolOk, lookup |-> TRUE,
                 invoked |-> name, names |-> ""]
    ELSE IF startsWithMcp(name)
           THEN [outcome |-> "return", text |-> callMCPTool(name, behav),
                 lookup |-> TRUE, invoked |-> "callMCPTool",
                 names |-> quotedName(callMCPTool(name, behav), name)]
           ELSE [outcome |-> "return", text |-> UnknownTool, lookup |-> TRUE,
                 invoked |-> "", names |-> quotedName(UnknownTool, name)]

\* A gate that lets every name through.
executeTool_NoGate(name, mode, behav) == executeToolDispatch(name, behav)

\* executeTool(name, args, mode).
executeTool(name, mode, behav) ==
  IF mode = "PLAN" /\ name \notin READ_ONLY_TOOLS /\ ~startsWithMcp(name)
    THEN [outcome |-> "return", text |-> PlanDenied, lookup |-> FALSE,
          invoked |-> "", names |-> quotedName(PlanDenied, name)]
    ELSE executeToolDispatch(name, behav)

(***************************************************************************)
(* parseModelOutput (core/parser.ts) on token sequences.                   *)
(***************************************************************************)
ThinkOpen == "<think>"
ThinkClose == "</think>"
ToolOpen == "<minimax:tool_call>"
ToolClose == "</minimax:tool_call>"

\* A token that is one whole <invoke name=N>...</invoke> element.
InvokeTokens == {"<invoke write_file>", "<invoke read_file>"}
InvokeName(tok) ==
  IF tok = "<invoke write_file>" THEN "write_file" ELSE "read_file"

\* Tokens that are a proper prefix of one of the four known tags and begin
\* as a tag does: "<", an optional "/", a letter.
KnownPartialTags == {"<thi", "</think", "<minimax:tool", "</minimax:tool_call"}

\* A token that begins as a tag does and is the prefix of no known tag.
OtherPartialTags == {"<div"}

\* A token of white space, and a token of text with no white space, "<" or
\* ">" in it.
Space == " "
Text == "text"

\* The tokens that hold a ">": the whole tags and elements.
HasGt(tok) == tok \in {ThinkOpen, ThinkClose, ToolOpen, ToolClose} \cup InvokeTokens

\* The tokens at which /<\/?[a-z][^>]*$/i can begin to match.
OpensTag(tok) == tok \in KnownPartialTags \cup OtherPartialTags

\* The white space String.prototype.trim removes: the line terminators and
\* the space characters, each a token of its own.
Newline == "\n"
Whitespace == {Space, Newline, "\t", "\r", "\f"}

\* String.prototype.trim.
trim(w) ==
  LET ns == {i \in 1..Len(w) : w[i] \notin Whitespace}
  IN IF ns = {} THEN <<>>
     ELSE SubSeq(w, CHOOSE i \in ns : \A j \in ns : i <= j,
                    CHOOSE i \in ns : \A j \in ns : j <= i)

\* The single character "<": the regex matches at it only if a letter
\* comes next, which of the tokens only Text begins with.
LessThan == "<"

OpensTagAt(w, i) ==
  OpensTag(w[i]) \/ (w[i] = LessThan /\ i < Len(w) /\ w[i + 1] = Text)

\* working.match(/<\/?[a-z][^>]*$/i): the index of the match, 0 for none.
\* The match begins at the first tag opening that no ">" follows.
partialTagMatch(w) ==
  LET starts == {i \in 1..Len(w) :
                   OpensTagAt(w, i) /\ \A j \in i..Len(w) : ~HasGt(w[j])}
  IN IF starts = {} THEN 0 ELSE CHOOSE i \in starts : \A j \in starts : i <= j

\* "<tag>".startsWith(partial) for one of the four known tags: no two tokens
\* in a row spell the prefix of a tag.
startsKnownTag(partial) == Len(partial) = 1 /\ partial[1] \in KnownPartialTags

Has(w, tok) == \E i \in 1..Len(w) : w[i] = tok

IndexOf(w, tok) ==
  IF Has(w, tok) THEN CHOOSE i \in 1..Len(w) :
                        w[i] = tok /\ \A j \in 1..(i - 1) : w[j] # tok
                 ELSE 0

\* The global non-greedy regex open([\s\S]*?)close over w, scanned from
\* position i: rest is w without the matches, inners the captured groups.
RECURSIVE ScanBlocks(_, _, _, _, _, _, _)
ScanBlocks(w, open, close, i, start, rest, inners) ==
  IF i > Len(w)
    THEN [rest |-> IF start > 0 THEN rest \o SubSeq(w, start, Len(w)) ELSE rest,
          inners |-> inners]
    ELSE IF start = 0
      THEN IF w[i] = open
             THEN ScanBlocks(w, open, close, i + 1, i, rest, inners)
             ELSE ScanBlocks(w, open, close, i + 1, 0, Append(rest, w[i]), inners)
      ELSE IF w[i] = close
             THEN ScanBlocks(w, open, close, i + 1, 0, rest,
                             Append(inners, SubSeq(w, start + 1, i - 1)))
             ELSE ScanBlocks(w, open, close, i + 1, start, rest, inners)

RECURSIVE Flatten(_)
Flatten(ss) == IF ss = <<>> THEN <<>> ELSE trim(Head(ss)) \o Flatten(Tail(ss))

IsInvoke(tok) == tok \in InvokeTokens

\* The arguments of an XML call after coerceArg and JSON.stringify.
XmlArguments == <<"{", "\"", "path", "\"", ":", "\"", "a.txt", "\"", "}">>

parseToolCallBlock(block) ==
  LET invs == SelectSeq(block, IsInvoke)
  IN [k \in 1..Len(invs) |-> [name |-> InvokeName(invs[k])]]

RECURSIVE parseBlocks(_)
parseBlocks(blocks) ==
  IF blocks = <<>> THEN <<>>
  ELSE parseToolCallBlock(Head(blocks)) \o parseBlocks(Tail(blocks))

parseModelOutput(raw) ==
  LET hasUnclosedThink == Has(raw, ThinkOpen) /\ ~Has(raw, ThinkClose)
      hasUnclosedToolCall == Has(raw, ToolOpen) /\ ~Has(raw, ToolClose)
      th == ScanBlocks(raw, ThinkOpen, ThinkClose, 1, 0, <<>>, <<>>)
      reasoning1 == Flatten(th.inners)
      cutThink == hasUnclosedThink /\ Has(th.rest, ThinkOpen)
      thinkIdx == IndexOf(th.rest, ThinkOpen)
      partialReasoning ==
        IF cutThink THEN SubSeq(th.rest, thinkIdx + 1, Len(th.rest)) ELSE <<>>
      reasoning2 ==
        IF cutThink
          THEN reasoning1 \o (IF reasoning1 # <<>> THEN <<Newline>> ELSE <<>>)
                          \o trim(partialReasoning)
          ELSE reasoning1
      working2 == IF cutThink THEN SubSeq(th.rest, 1, thinkIdx - 1) ELSE th.rest
      tc == ScanBlocks(working2, ToolOpen, ToolClose, 1, 0, <<>>, <<>>)
      cutTool == hasUnclosedToolCall /\ Has(tc.rest, ToolOpen)
      working3 ==
        IF cutTool THEN SubSeq(tc.rest, 1, IndexOf(tc.rest, ToolOpen) - 1)
                   ELSE tc.rest
      matchIdx == partialTagMatch(working3)
      partialTag ==
        matchIdx > 0 /\ startsKnownTag(SubSeq(working3, matchIdx, Len(working3)))
      working4 ==
        IF partialTag THEN SubSeq(working3, 1, matchIdx - 1) ELSE working3
  IN [reasoning |-> reasoning2,
      content |-> trim(working4),
      toolCalls |-> parseBlocks(tc.inners),
      pending |-> hasUnclosedThink \/ hasUnclosedToolCall \/ partialTag]

(***************************************************************************)
(* Messages.  A content is a token sequence with a tag that tells how the  *)
(* text was built: "" (plain), "error_only" (Error: msg), "error_suffix"   *)
(* (content, then [Error: msg]), "truncated", "empty", "tool".             *)
(***************************************************************************)
Content(body, tag, msg) == [body |-> body, tag |-> tag, msg |-> msg]

SrvId(s) == [src |-> "srv", s |-> s, ts |-> 0, i |-> 0]
XmlId(ts, i) == [src |-> "xml_tc", s |-> "", ts |-> ts, i |-> i]
NoId == [src |-> "none", s |-> "", ts |-> 0, i |-> 0]

HistMsg(role, content, toolCalls, toolCallId) ==
  [role |-> role, content |-> content, tool_calls |-> toolCalls,
   tool_call_id |-> toolCallId]

(***************************************************************************)
(* streamChat (core/api.ts): accumulation of the deltas of one stream.     *)
(***************************************************************************)
MapPos(map, idx) ==
  IF \E k \in 1..Len(map) : map[k].index = idx
    THEN CHOOSE k \in 1..Len(map) : map[k].index = idx
    ELSE 0

\* An accumulation that keeps the last fragment of the arguments only.
applyToolCallDelta_Overwrite(map, tc) ==
  LET k == IF \E j \in 1..Len(map) : map[j].index = tc.index
             THEN CHOOSE j \in 1..Len(map) : map[j].index = tc.index
             ELSE Len(map) + 1
      old == IF k <= Len(map) THEN map[k]
             ELSE [index |-> tc.index, id |-> SrvId(""), name |-> "", arguments |-> <<>>]
      new == [index |-> tc.index,
              id |-> IF tc.id # "" THEN SrvId(tc.id) ELSE old.id,
              name |-> IF tc.name # "" THEN tc.name ELSE old.name,
              arguments |-> IF tc.arguments # "" THEN <<tc.arguments>> ELSE old.arguments]
  IN IF k <= Len(map) THEN [map EXCEPT ![k] = new] ELSE Append(map, new)

\* One element tc of delta.tool_calls; "" stands for an absent field.
applyToolCallDelta(map, tc) ==
  LET map1 == IF MapPos(map, tc.index) = 0
                THEN Append(map, [index |-> tc.index, id |-> SrvId(tc.id),
                                  name |-> tc.name, arguments |-> <<>>])
                ELSE map
      k == MapPos(map1, tc.index)
      acc == map1[k]
      acc1 == [acc EXCEPT
                 !.id = IF tc.id # "" THEN SrvId(tc.id) ELSE @,
                 !.name = IF tc.name # "" THEN tc.name ELSE @,
                 !.arguments = IF tc.arguments # "" THEN Append(@, tc.arguments)
                                                    ELSE @]
  IN [map1 EXCEPT ![k] = acc1]

\* for (const tc of delta.tool_calls) { ... }.
RECURSIVE applyToolCallDeltas(_, _)
applyToolCallDeltas(map, tcs) ==
  IF tcs = <<>> THEN map
  ELSE applyToolCallDeltas(applyToolCallDelta(map, Head(tcs)), Tail(tcs))

\* if (delta.content) content += delta.content.
appendContent(content, delta) ==
  IF delta # <<>> THEN content \o delta ELSE content

\* Array.from(toolCallsMap.values()).
toolCallsOf(map) ==
  [k \in 1..Len(map) |->
     [id |-> map[k].id, name |-> map[k].name, arguments |-> map[k].arguments]]

EmptyResponse == "No response received from API (0 chunks)"
ApiError == "API error"
TransportError == "transport error"

\* An end of streamChat that does not look for an empty response.
streamErrorAtEnd_NoEmpty(chunkCount, content, map, err) == err

\* The error reported by the end of streamChat, given the one reported
\* inside the loop ("" when none).
streamErrorAtEnd(chunkCount, content, map, err) ==
  IF chunkCount = 0 /\ content = <<>> /\ map = <<>> THEN EmptyResponse ELSE err

\* The callbacks of streamChat that end a run.
OnError(msg) == [cb |-> "onError", msg |-> msg]
OnDone == [cb |-> "onDone", msg |-> ""]

\* The callbacks streamChat emits from the end of its chunk loop to its
\* return: the error of the loop or of the catch clause (err, "" when none),
\* the empty-response error, then onDone.
endingCallbacks(chunkCount, content, map, err) ==
  (IF err # "" THEN <<OnError(err)>> ELSE <<>>)
  \o (IF chunkCount = 0 /\ content = <<>> /\ map = <<>>
        THEN <<OnError(EmptyResponse)>> ELSE <<>>)
  \o <<OnDone>>

(***************************************************************************)
(* JSON text.  A text is a sequence of characters; a word without a quote, *)
(* a backslash or a line feed in it (a key, a tool name, a server's id, a  *)
(* fragment of arguments) stands as one character.                         *)
(***************************************************************************)
DigitChars == <<"0", "1", "2", "3", "4", "5", "6", "7", "8", "9">>
Digits == SeqRange(DigitChars)

digitValue(c) == CHOOSE v \in 0..9 : DigitChars[v + 1] = c

\* The element of a set of one element.
The(S) == CHOOSE r \in S : TRUE

\* The greatest element of a set of numbers, 0 for the empty set.
Greatest(I) == IF I = {} THEN 0 ELSE CHOOSE i \in I : \A j \in I : j <= i

\* The digits of a small natural number.
RECURSIVE natDigits(_)
natDigits(v) ==
  IF v < 10 THEN <<DigitChars[v + 1]>>
  ELSE Append(natDigits(v \div 10), DigitChars[(v % 10) + 1])

\* The number that a sequence of digits writes.
RECURSIVE natOf(_)
natOf(digits) ==
  IF digits = <<>> THEN 0
  ELSE (10 * natOf(SubSeq(digits, 1, Len(digits) - 1))) + digitValue(digits[Len(digits)])

Quote == "\""

Backslash == "\\"

\* QuoteJSONString without the quotes around it: the quote and the
\* backslash are escaped, the line feed is written \n.
RECURSIVE escapeJson(_)
escapeJson(str) ==
  IF str = <<>> THEN <<>>
  ELSE (IF str[1] \in {Quote, Backslash} THEN <<Backslash, str[1]>>
        ELSE IF str[1] = Newline THEN <<Backslash, "n">>
        ELSE <<str[1]>>)
       \o escapeJson(Tail(str))

\* A reader that leaves the escapes of a string as they are written.
unescapeJson_Raw(text) == text

\* The string that the text of a JSON string spells.
RECURSIVE unescapeJson(_)
unescapeJson(text) ==
  IF text = <<>> THEN <<>>
  ELSE IF text[1] = Backslash /\ Len(text) >= 2
    THEN <<IF text[2] = "n" THEN Newline ELSE text[2]>>
         \o unescapeJson(SubSeq(text, 3, Len(text)))
  ELSE <<text[1]>> \o unescapeJson(Tail(text))

\* The characters of a name or of a server's id.
wordText(word) == IF word = "" THEN <<>> ELSE <<word>>

wordOf(chars) == IF chars = <<>> THEN "" ELSE chars[1]

\* The characters of a call id: the server's, or xml_tc_<Date.now()>_<i>.
XmlIdPrefix == "xml_tc_"

idText(id) ==
  IF id.src = "xml_tc"
    THEN <<XmlIdPrefix>> \o natDigits(id.ts) \o <<"_">> \o natDigits(id.i)
    ELSE wordText(id.s)

idOf(chars) ==
  IF chars # <<>> /\ chars[1] = XmlIdPrefix
    THEN LET sep == CHOOSE j \in 2..Len(chars) : chars[j] = "_"
         IN XmlId(natOf(SubSeq(chars, 2, sep - 1)),
                  natOf(SubSeq(chars, sep + 1, Len(chars))))
    ELSE SrvId(wordOf(chars))

\* QuoteJSONString, and one member of an object.
jsonString(chars) == <<Quote>> \o escapeJson(chars) \o <<Quote>>

jsonMember(key, valueText) == jsonString(<<key>>) \o <<":">> \o valueText

\* The function member of a tool call: {name, arguments}.
jsonFunction(c) ==
  <<"{">> \o jsonMember("name", jsonString(wordText(c.name)))
          \o <<",">> \o jsonMember("arguments", jsonString(c.arguments))
          \o <<"}">>

\* JSON.stringify of one tool call, with no white space and the members in
\* the order in which the object was built: {id, function, type} for a call
\* accumulated by streamChat, {id, type, function} for a call recovered
\* from XML.
jsonToolCall(c) ==
  <<"{">> \o jsonMember("id", jsonString(idText(c.id))) \o <<",">>
          \o (IF c.id.src = "xml_tc"
                THEN jsonMember("type", jsonString(<<"function">>)) \o <<",">>
                     \o jsonMember("function", jsonFunction(c))
                ELSE jsonMember("function", jsonFunction(c)) \o <<",">>
                     \o jsonMember("type", jsonString(<<"function">>)))
          \o <<"}">>

RECURSIVE jsonElements(_)
jsonElements(calls) ==
  IF calls = <<>> THEN <<>>
  ELSE jsonToolCall(Head(calls))
       \o (IF Len(calls) > 1 THEN <<",">> ELSE <<>>)
       \o jsonElements(Tail(calls))

\* JSON.stringify of a tool-call list: the text of an array of objects.
JSONstringify(calls) == <<"[">> \o jsonElements(calls) \o <<"]">>

\* The values JSON.parse builds: a string, an object (its members in the
\* order of the text), an array.
JsonString(chars) == [t |-> "string", chars |-> chars, members |-> <<>>, items |-> <<>>]

JsonObject(members) == [t |-> "object", chars |-> <<>>, members |-> members, items |-> <<>>]

JsonArray(items) == [t |-> "array", chars |-> <<>>, members |-> <<>>, items |-> items]

\* The index of the quote that closes a string: an escaped character is
\* stepped over.
RECURSIVE closingQuote(_, _)
closingQuote(text, i) ==
  IF i > Len(text) THEN i
  ELSE IF text[i] = Backslash THEN closingQuote(text, i + 2)
  ELSE IF text[i] = Quote THEN i
  ELSE closingQuote(text, i + 1)

\* The string that opens at index i, and the index after it.
scanString(text, i) ==
  The({[val |-> JsonString(unescapeJson(SubSeq(text, i + 1, j - 1))), next |-> j + 1] :
         j \in {closingQuote(text, i + 1)}})

\* The value that opens at index i, and the index after it.
RECURSIVE scanValue(_, _)
RECURSIVE scanMembers(_, _, _)
RECURSIVE scanItems(_, _, _)
scanValue(text, i) ==
  IF text[i] = Quote THEN scanString(text, i)
  ELSE IF text[i] = "{" THEN scanMembers(text, i + 1, <<>>)
  ELSE scanItems(text, i + 1, <<>>)

scanMembers(text, i, acc) ==
  IF text[i] = "}" THEN [val |-> JsonObject(acc), next |-> i + 1]
  ELSE IF text[i] = "," THEN scanMembers(text, i + 1, acc)
  ELSE The({The({scanMembers(text, v.next,
                             Append(acc, [key |-> k.val.chars, val |-> v.val])) :
                   v \in {scanValue(text, k.next + 1)}}) :
              k \in {scanString(text, i)}})

scanItems(text, i, acc) ==
  IF text[i] = "]" THEN [val |-> JsonArray(acc), next |-> i + 1]
  ELSE IF text[i] = "," THEN scanItems(text, i + 1, acc)
  ELSE The({scanItems(text, v.next, Append(acc, v.val)) :
              v \in {scanValue(text, i)}})

\* obj[key].
member(obj, key) ==
  The({obj.members[j].val :
         j \in {j \in 1..Len(obj.members) : obj.members[j].key = <<key>>}})

\* The tool call that a parsed object is: id, function.name and
\* function.arguments are what the program reads of it.
toolCallOf(obj) ==
  The({[id |-> idOf(member(obj, "id").chars),
        name |-> wordOf(member(f, "name").chars),
        arguments |-> member(f, "arguments").chars] :
         f \in {member(obj, "function")}})

\* JSON.parse of a stored tool_calls text.
JSONparse(text) ==
  The({[k \in 1..Len(v.val.items) |-> toolCallOf(v.val.items[k])] \o <<>> :
         v \in {scanValue(text, 1)}})

(***************************************************************************)
(* The message table (core/session.ts).                                    *)
(***************************************************************************)
\* A name is a sequence of characters.
DefaultName == <<"N", "e", "w", " ", "S", "e", "s", "s", "i", "o", "n">>

\* The toolCalls argument of saveMessage: null (or absent), or a list.
ToolCallsNull == [null |-> TRUE, list |-> <<>>]
ToolCallsList(list) == [null |-> FALSE, list |-> list]

\* The tool_calls column: toolCalls ? JSON.stringify(toolCalls) : null.
\* An empty list is truthy and is stored as the text of an empty array.
NullColumn == [null |-> TRUE, text |-> <<>>]

toolCallsColumn(toolCalls) ==
  IF toolCalls.null THEN NullColumn
  ELSE [null |-> FALSE, text |-> JSONstringify(toolCalls.list)]

\* The tool_call_id column: toolCallId || null.  An empty id is falsy and
\* is stored as NULL.
toolCallIdColumn(toolCallId) ==
  IF toolCallId = SrvId("") THEN NoId ELSE toolCallId

\* loadSession: if (m.tool_calls) msg.tool_calls = JSON.parse(m.tool_calls).
loadedToolCalls(column) ==
  IF column.null THEN <<>> ELSE JSONparse(column.text)

saveMessage(table, sessionId, role, content, toolCalls, toolCallId, name) ==
  Append(table, [session_id |-> sessionId, role |-> role, content |-> content,
                 tool_calls |-> toolCallsColumn(toolCalls),
                 tool_call_id |-> toolCallIdColumn(toolCallId), name |-> name])

InSession(sid, row) == row.session_id = sid

getSessionMessages(table, sid) ==
  LET keep(row) == InSession(sid, row) IN SelectSeq(table, keep)

createSession(ss) == Append(ss, DefaultName)

renameSession(ss, id, name) == [ss EXCEPT ![id] = name]

\* The tables are indexed by id, and ids are never reused: a deleted session
\* or message leaves its id mapped to these values, which no query returns.
DeletedSession == <<"<deleted>">>
DeletedMessage ==
  [session_id |-> NoSession, role |-> "", content |-> Content(<<>>, "", ""),
   tool_calls |-> NullColumn, tool_call_id |-> NoId, name |-> ""]

\* deleteSession: DELETE FROM sessions WHERE id = ?.
deleteSession(ss, id) == [ss EXCEPT ![id] = DeletedSession]

\* A cascade that empties the whole messages table.
onDeleteCascade_All(table, id) == [k \in 1..Len(table) |-> DeletedMessage]

\* FOREIGN KEY (session_id) REFERENCES sessions(id) ON DELETE CASCADE, with
\* PRAGMA foreign_keys = ON.
onDeleteCascade(table, id) ==
  [k \in 1..Len(table) |->
     IF table[k].session_id = id THEN DeletedMessage ELSE table[k]]

NAME_LIMIT == 50

\* content.slice(0, end) for end >= 0.
sliceTo(content, end) ==
  SubSeq(content, 1, IF end < Len(content) THEN end ELSE Len(content))

\* content.replace(/\n/g, " ").
replaceNewlines(content) ==
  [i \in 1..Len(content) |-> IF content[i] = Newline THEN Space ELSE content[i]]

\* A name that is the message as it is.
autoName_Whole(content) == content

\* content.slice(0, 50).replace(/\n/g, " ").trim() || "New Session", for a
\* content that is a sequence of characters.
autoName(content) ==
  LET name == trim(replaceNewlines(sliceTo(content, NAME_LIMIT)))
  IN IF name = <<>> THEN DefaultName ELSE name

(***************************************************************************)
(* State.                                                                  *)
(***************************************************************************)
VARIABLES
  mode,           \* useMode: the mode state
  isLoading,      \* useChat: the isLoading state
  totalTokens,    \* useChat: the totalTokens state
  systemMessage,  \* ChatInterface: the notice line ("" is null)
  rIsLoading,     \* isLoading as captured by the closures of the last render
  rMode,          \* mode as captured by the closures of the last render
  rTokens,        \* totalTokens at the last render (the effect's dependency)
  historyRef,     \* useChat: historyRef.current
  abortRef,       \* useChat: the turn whose controller abortRef.current holds
  sessionRef,     \* useSession: sessionRef.current (a session id)
  isNamedRef,     \* useSession: isNamedRef.current
  sessions,       \* the sessions table: name by session id
  messages,       \* the messages table, in id order
  turns,          \* the local state of each sendMessage invocation; ending
                  \* holds the callbacks that closed its last stream
  execLog,        \* the tool invocations started and settled, in order
  clock,          \* the last value read from Date.now()
  uiOps,          \* the commands and keys handled so far, each with whether
                  \* no turn was in progress when it came
  roundsLeft,     \* the number of rounds that may still be started
  chunksLeft,     \* the number of chunks that may still arrive
  teCall,         \* a direct call of executeTool: its inputs
  teResult,       \* a direct call of executeTool: what it did
  streamingShown, \* the turns of the displayed messages marked isStreaming, in display order
  fnArgs,         \* a direct call of one function of the program: its inputs
  fnResult        \* a direct call of one function: what it returned, in order

vars == <<mode, isLoading, totalTokens, systemMessage, rIsLoading, rMode,
          rTokens, historyRef, abortRef, sessionRef, isNamedRef, sessions,
          messages, turns, execLog, clock, uiOps, roundsLeft, chunksLeft,
          teCall,
          teResult, streamingShown, fnArgs, fnResult>>

uiVars == <<mode, systemMessage, rIsLoading, rMode, rTokens, uiOps>>
teVars == <<teCall, teResult, fnArgs, fnResult>>

(***************************************************************************)
(* Inputs of the model: what the server may send and the user may type.    *)
(***************************************************************************)
\* What the user types, a sequence of characters.
UserInputs == {<<"h", "i">>}

ContentChunks ==
  { <<"text">>,
    <<ToolOpen, "<invoke read_file>", ToolClose>> }

ToolCallDeltas ==
  { [index |-> 0, id |-> "call_1", name |-> "write_file", arguments |-> "{}"],
    [index |-> 1, id |-> "call_2", name |-> "read_file", arguments |-> "{"] }

Usages == {TOKEN_LIMIT}

LoopBehaviours == {"string", "throw"}

HasInvoke(c) == \E i \in 1..Len(c) : IsInvoke(c[i])

\* The mode argument of the executeTool call in sendMessage: none is passed.
LoopCallMode == "undefined"

NewTurn ==
  [pc |-> "new", mode |-> "BUILDER", aborted |-> FALSE, round |-> 0,
   rawBuffer |-> <<>>, toolCallsMap |-> <<>>, usage |-> 0, chunkCount |-> 0,
   finalToolCalls |-> <<>>, idx |-> 0, tools |-> <<>>, fullHistory |-> <<>>,
   ending |-> <<>>]

NoCall == [name |-> "", mode |-> "undefined", behav |-> "string"]
NoResult ==
  [outcome |-> "none", text |-> "", lookup |-> FALSE, invoked |-> "", names |-> ""]

Init ==
  /\ mode = "BUILDER"
  /\ isLoading = FALSE
  /\ totalTokens = 0
  /\ systemMessage = ""
  /\ rIsLoading = FALSE
  /\ rMode = "BUILDER"
  /\ rTokens = 0
  /\ historyRef = <<>>
  /\ abortRef = NoTurn
  /\ sessions = createSession(<<>>)
  /\ sessionRef = 1
  /\ isNamedRef = FALSE
  /\ messages = <<>>
  /\ turns = [t \in Turns |-> NewTurn]
  /\ execLog = <<>>
  /\ clock = 0
  /\ uiOps = <<>>
  /\ roundsLeft = MaxRounds
  /\ chunksLeft = MaxStreamed
  /\ streamingShown = <<>>
  /\ teCall = NoCall
  /\ teResult = NoResult
  /\ fnArgs = <<>>
  /\ fnResult = <<>>

(***************************************************************************)
(* useSession.persistMessage.                                              *)
(***************************************************************************)
persistedTable(table, cur, role, content, toolCalls, toolCallId, name) ==
  IF cur = NoSession THEN table
  ELSE saveMessage(table, cur, role, content, toolCalls, toolCallId, name)

persistedSessions(ss, cur, named, role, content) ==
  IF cur # NoSession /\ role = "user" /\ ~named
    THEN renameSession(ss, cur, autoName(content.body))
    ELSE ss

persistedNamed(cur, named, role) ==
  IF cur # NoSession /\ role = "user" THEN TRUE ELSE named

(***************************************************************************)
(* useChat.sendMessage.                                                    *)
(***************************************************************************)
getSystemPrompt(m) == Content(<<m>>, "system", "")

buildHistory(m, hist) == <<HistMsg("system", getSystemPrompt(m), <<>>, NoId)>> \o hist

toolsFor(m) ==
  IF m = "BUILDER" THEN getToolDefinitions ELSE getReadOnlyToolDefinitions

\* The top of the while loop: a new controller, the tool schemas, the request.
startRound(tr, hist) ==
  [tr EXCEPT !.pc = "stream", !.aborted = FALSE, !.round = @ + 1,
             !.rawBuffer = <<>>, !.toolCallsMap = <<>>, !.usage = 0,
             !.chunkCount = 0, !.finalToolCalls = <<>>, !.idx = 0,
             !.tools = toolsFor(tr.mode),
             !.fullHistory = buildHistory(tr.mode, hist), !.ending = <<>>]

\* The arguments string of a call: its fragments in one piece.
RECURSIVE argumentsString(_)
argumentsString(frags) ==
  IF frags = <<>> THEN "" ELSE Head(frags) \o argumentsString(Tail(frags))

\* The arguments strings that JSON.parse accepts, each the text of an object.
JsonObjects == {"{}", argumentsString(XmlArguments)}
EmptyObject == "{}"

\* A decoding that hands the string on as it is.
decodeArguments_Raw(arguments) == argumentsString(arguments)

\* try { args = JSON.parse(tc.function.arguments || "{}") } catch { args = {} }:
\* the object, as its text.
decodeArguments(arguments) ==
  LET str == argumentsString(arguments)
      text == IF str = "" THEN "{}" ELSE str
  IN IF text \in JsonObjects THEN text ELSE EmptyObject

StartEvent(t, tr, k, calls) ==
  [turn |-> t, round |-> tr.round, k |-> k, ev |-> "start", id |-> calls[k].id,
   name |-> calls[k].name, args |-> decodeArguments(calls[k].arguments),
   invoked |-> executeTool(calls[k].name, LoopCallMode, "string").invoked,
   outcome |-> ""]

\* r is what the awaited executeTool call did.
EndEvent(t, tr, k, calls, r) ==
  [turn |-> t, round |-> tr.round, k |-> k, ev |-> "end", id |-> calls[k].id,
   name |-> calls[k].name, args |-> decodeArguments(calls[k].arguments),
   invoked |-> "", outcome |-> r.outcome]

\* The object { result, meta } that executeTool resolves to, used where a
\* text is expected.
ToolObject(text) == Content(<<>>, "object", text)

\* A loop that records the message of the exception as it is.
toolResultOf_Rethrow(r) ==
  IF r.outcome = "throw" THEN Content(<<>>, "tool", "thrown") ELSE ToolObject(r.text)

\* try { toolResult = await executeTool(...) } catch (err) { toolResult =
\* `Error: ${err.message}` }: the value the call resolved to, as it is (an
\* object), or the text made from the exception.
toolResultOf(r) ==
  IF r.outcome = "throw" THEN Content(<<>>, "tool", ToolThrown) ELSE ToolObject(r.text)

\* db.run binds strings, numbers, booleans, bigints, typed arrays and null;
\* it throws when the content it is given is an object.
bindingThrows(content) == content.tag = "object"

\* persistMessage: if (!cur) return; saveMessage(...) throws.
persistThrows(cur, content) == cur # NoSession /\ bindingThrows(content)

\* A state update has been made that no render has shown yet.
RenderPending == rIsLoading # isLoading \/ rMode # mode \/ rTokens # totalTokens

\* No sendMessage call is between its start and its return.
NoTurnInProgress == \A t \in Turns : turns[t].pc \in {"new", "done"}

Key(k) == [key |-> k, idle |-> NoTurnInProgress]

UiBudget == Len(uiOps) < MaxUiOps

\* The guard "if (isLoading) return" reads the isLoading of the render that
\* created the callback.
sendMessageGuard == ~rIsLoading

\* setMessages((prev) => [...prev, {..., isStreaming: true}]): the
\* placeholder of turn t is displayed after the messages already shown.
addPlaceholder(shown, t) == Append(shown, t)

\* setMessages: the last message marked isStreaming, if there is one, is
\* replaced by the final message.
finalizeStreaming(shown) ==
  IF shown # <<>> THEN SubSeq(shown, 1, Len(shown) - 1) ELSE shown

SendMessage(t, input) ==
  /\ turns[t].pc = "new"
  /\ \A u \in Turns : u < t => turns[u].pc # "new"
  /\ sendMessageGuard
  /\ roundsLeft > 0
  /\ roundsLeft' = roundsLeft - 1
  /\ LET userContent == Content(input, "", "")
         hist == Append(historyRef, HistMsg("user", userContent, <<>>, NoId))
     IN /\ systemMessage' = ""
        /\ isLoading' = TRUE
        /\ historyRef' = hist
        /\ messages' = persistedTable(messages, sessionRef, "user", userContent,
                                      ToolCallsNull, NoId, "")
        /\ sessions' = persistedSessions(sessions, sessionRef, isNamedRef,
                                         "user", userContent)
        /\ isNamedRef' = persistedNamed(sessionRef, isNamedRef, "user")
        /\ abortRef' = t
        /\ turns' = [turns EXCEPT
                       ![t] = startRound([NewTurn EXCEPT !.mode = rMode], hist)]
        /\ streamingShown' = addPlaceholder(streamingShown, t)
  /\ UNCHANGED <<mode, totalTokens, rIsLoading, rMode, rTokens, sessionRef,
                 execLog, clock, uiOps, teVars, chunksLeft>>

\* A submission that the guard turns away.
SendMessageIgnored ==
  /\ ~sendMessageGuard
  /\ UiBudget
  /\ uiOps' = Append(uiOps, Key("submit"))
  /\ systemMessage' = ""
  /\ UNCHANGED <<streamingShown, mode, isLoading, totalTokens, rIsLoading, rMode, rTokens,
                 historyRef, abortRef, sessionRef, isNamedRef, sessions,
                 messages, turns, execLog, clock, teVars, roundsLeft,
                 chunksLeft>>

\* The stream of turn t is being read.  Chunks, the end of a stream and the
\* completion of a tool are handled whether or not the last state update has
\* been rendered.
Streaming(t) ==
  /\ turns[t].pc = "stream"
  /\ ~turns[t].aborted

\* A chunk arrives: at most MaxChunks in a round and MaxStreamed in all.
CanTakeChunk(t) ==
  Streaming(t) /\ turns[t].chunkCount < MaxChunks /\ chunksLeft > 0

loopFrame == <<isLoading, totalTokens, historyRef, abortRef, sessionRef,
               isNamedRef, sessions, messages, execLog, clock, streamingShown>>

ContentChunk(t, c) ==
  /\ CanTakeChunk(t)
  /\ turns' = [turns EXCEPT ![t].chunkCount = @ + 1, ![t].rawBuffer = @ \o c]
  /\ chunksLeft' = chunksLeft - 1
  /\ UNCHANGED <<uiVars, loopFrame, teVars, roundsLeft>>

ToolCallDelta(t, d) ==
  /\ CanTakeChunk(t)
  /\ turns' = [turns EXCEPT ![t].chunkCount = @ + 1,
                            ![t].toolCallsMap = applyToolCallDelta(@, d)]
  /\ chunksLeft' = chunksLeft - 1
  /\ UNCHANGED <<uiVars, loopFrame, teVars, roundsLeft>>

UsageChunk(t, u) ==
  /\ CanTakeChunk(t)
  /\ turns' = [turns EXCEPT ![t].chunkCount = @ + 1, ![t].usage = u]
  /\ chunksLeft' = chunksLeft - 1
  /\ UNCHANGED <<uiVars, loopFrame, teVars, roundsLeft>>

\* A merge that keeps the XML calls beside the structured ones.
finalToolCallsOf_Merge(structured, xml, now) ==
  structured \o [k \in 1..Len(xml) |->
                   [id |-> XmlId(now[k], k - 1), name |-> xml[k].name,
                    arguments |-> XmlArguments]]

\* finalToolCalls: the structured calls, else the XML calls with fresh ids.
\* now[k] is the value the k-th read of Date.now() gives: the map callback
\* reads it once for each XML call.
finalToolCallsOf(structured, xml, now) ==
  IF structured = <<>> /\ xml # <<>>
    THEN [k \in 1..Len(xml) |->
            [id |-> XmlId(now[k], k - 1), name |-> xml[k].name,
             arguments |-> XmlArguments]]
    ELSE structured

\* result.finishReason: the last finish_reason a chunk carried, "" if none.
NoFinishReason == ""
FinishReasons == {NoFinishReason, "length"}

\* A finalization that drops the error text of the stream.
finalContentOf_NoError(parsedContent, streamErrorMsg, final, rawBuffer, finishReason) ==
  Content(parsedContent, "", "")

\* A finalization that shows the parsed content whenever no error came.
finalContentOf_NoNotice(parsedContent, streamErrorMsg, final, rawBuffer, finishReason) ==
  IF streamErrorMsg # ""
    THEN IF parsedContent # <<>>
           THEN Content(parsedContent, "error_suffix", streamErrorMsg)
           ELSE Content(<<>>, "error_only", streamErrorMsg)
    ELSE Content(parsedContent, "", "")

\* finalContent.  The notice of a truncated response carries the raw
\* buffer (its first 500 characters; the buffers here are shorter), the
\* notice of an empty response the finish reason.
finalContentOf(parsedContent, streamErrorMsg, final, rawBuffer, finishReason) ==
  IF streamErrorMsg # ""
    THEN IF parsedContent # <<>>
           THEN Content(parsedContent, "error_suffix", streamErrorMsg)
           ELSE Content(<<>>, "error_only", streamErrorMsg)
  ELSE IF parsedContent = <<>> /\ final = <<>> /\ rawBuffer # <<>>
    THEN Content(rawBuffer, "truncated", "")
  ELSE IF parsedContent = <<>> /\ final = <<>> /\ rawBuffer = <<>>
    THEN Content(<<>>, "empty", finishReason)
  ELSE Content(parsedContent, "", "")

\* finalToolCalls.length > 0 ? finalToolCalls : null.
toolCallsOrNull(final) ==
  IF Len(final) > 0 THEN ToolCallsList(final) ELSE ToolCallsNull

\* Whether the loop goes on to run the tool calls of the round.
runsTools(streamErrorMsg, final) == streamErrorMsg = "" /\ final # <<>>

\* From the return of streamChat to the next await: the round is finalized
\* and persisted, then the turn ends or its first tool call is started.
\* tr is the turn at the end of the stream, err the error reported inside
\* the stream loop, now the values of Date.now() (read once for each XML
\* call), fr the finish reason of the stream (read when no error was
\* reported).
FinishRound(t, tr, err, now, fr) ==
  LET streamErrorMsg ==
        streamErrorAtEnd(tr.chunkCount, tr.rawBuffer, tr.toolCallsMap, err)
      structured == toolCallsOf(tr.toolCallsMap)
      parsed == parseModelOutput(tr.rawBuffer)
      final == finalToolCallsOf(structured, parsed.toolCalls, now)
      finalContent ==
        finalContentOf(parsed.content, streamErrorMsg, final, tr.rawBuffer, fr)
      historyMsg ==
        HistMsg("assistant", Content(tr.rawBuffer, "", ""), structured, NoId)
      go == runsTools(streamErrorMsg, final)
      ending ==
        endingCallbacks(tr.chunkCount, tr.rawBuffer, tr.toolCallsMap, err)
  IN /\ clock' = IF structured = <<>> /\ parsed.toolCalls # <<>>
                   THEN now[Len(parsed.toolCalls)] ELSE clock
     /\ totalTokens' = totalTokens + tr.usage
     /\ historyRef' = Append(historyRef, historyMsg)
     /\ messages' = persistedTable(messages, sessionRef, "assistant",
                                   finalContent, toolCallsOrNull(final), NoId, "")
     /\ IF go
          THEN /\ turns' = [turns EXCEPT
                              ![t] = [tr EXCEPT !.pc = "exec", !.idx = 1,
                                                !.finalToolCalls = final,
                                                !.ending = ending]]
               /\ execLog' = Append(execLog, StartEvent(t, tr, 1, final))
               /\ UNCHANGED <<isLoading, abortRef>>
          ELSE /\ turns' = [turns EXCEPT
                              ![t] = [tr EXCEPT !.pc = "done",
                                                !.finalToolCalls = final,
                                                !.ending = ending]]
               /\ isLoading' = FALSE
               /\ abortRef' = NoTurn
               /\ UNCHANGED execLog
     /\ streamingShown' = finalizeStreaming(streamingShown)
     /\ UNCHANGED <<uiVars, sessionRef, isNamedRef, sessions, teVars, roundsLeft>>

\* What successive reads of Date.now() can give from here on: the clock
\* does not go back, and it ticks at most once in the model.
Timestamps ==
  {now \in [1..MaxChunks -> {ts \in 0..MaxClock : clock <= ts /\ ts <= clock + 1}] :
     \A k \in 1..(MaxChunks - 1) : now[k] <= now[k + 1]}

\* The stream ends by itself.
StreamDone(t) ==
  /\ Streaming(t)
  /\ UNCHANGED chunksLeft
  /\ \E now \in Timestamps, fr \in FinishReasons :
       FinishRound(t, turns[t], "", now, fr)

\* The stream ends because the signal is aborted (the break at the top of
\* the chunk loop, or an AbortError).
StreamAborted(t) ==
  /\ turns[t].pc = "stream"
  /\ turns[t].aborted
  /\ UNCHANGED chunksLeft
  /\ \E now \in Timestamps, fr \in FinishReasons :
       FinishRound(t, turns[t], "", now, fr)

\* A chunk that carries an error field.
StreamErrorChunk(t) ==
  /\ CanTakeChunk(t)
  /\ chunksLeft' = chunksLeft - 1
  /\ \E now \in Timestamps :
       FinishRound(t, [turns[t] EXCEPT !.chunkCount = @ + 1], ApiError, now,
                   NoFinishReason)

\* The request or the stream throws something other than an AbortError,
\* whether or not the signal is aborted: the catch clause looks at the name
\* of the exception only.
StreamThrows(t) ==
  /\ turns[t].pc = "stream"
  /\ UNCHANGED chunksLeft
  /\ \E now \in Timestamps :
       FinishRound(t, turns[t], TransportError, now, NoFinishReason)

\* A loop that runs the same call again.
nextToolIndex_Repeat(k, n) == IF k < n THEN k ELSE 0

\* Which tool call runs after call k of n settles (0: none, the round ends).
nextToolIndex(k, n) == IF k < n THEN k + 1 ELSE 0

\* The awaited executeTool call settles: the result is appended to the
\* history and persisted, then the next call or the next round starts.
\* When persisting throws, the catch block finalizes the last streaming
\* message and the finally block ends the turn.
\* Once MaxRounds rounds have been started the turn is cut short at the
\* point where its next round would start (pc = "capped").
ToolSettles(t, behav) ==
  /\ turns[t].pc = "exec"
  /\ LET tr == turns[t]
         calls == tr.finalToolCalls
         tc == calls[tr.idx]
         r == executeTool(tc.name, LoopCallMode, behav)
         toolResult == toolResultOf(r)
         hist == Append(historyRef, HistMsg("tool", toolResult, <<>>, tc.id))
         nxt == nextToolIndex(tr.idx, Len(calls))
         ended == Append(execLog, EndEvent(t, tr, tr.idx, calls, r))
     IN /\ historyRef' = hist
        /\ IF persistThrows(sessionRef, toolResult)
             THEN /\ execLog' = ended
                  /\ turns' = [turns EXCEPT ![t].pc = "done"]
                  /\ streamingShown' = finalizeStreaming(streamingShown)
                  /\ isLoading' = FALSE
                  /\ abortRef' = NoTurn
                  /\ UNCHANGED <<messages, roundsLeft>>
             ELSE /\ messages' = persistedTable(messages, sessionRef, "tool",
                                                toolResult, ToolCallsNull, tc.id,
                                                tc.name)
                  /\ IF nxt # 0
                       THEN /\ turns' = [turns EXCEPT ![t].idx = nxt]
                            /\ execLog' = Append(ended, StartEvent(t, tr, nxt, calls))
                            /\ UNCHANGED <<abortRef, streamingShown>>
                       ELSE /\ execLog' = ended
                            /\ IF roundsLeft > 0
                                 THEN /\ turns' = [turns EXCEPT
                                                     ![t] = startRound(tr, hist)]
                                      /\ abortRef' = t
                                      /\ streamingShown' =
                                           addPlaceholder(streamingShown, t)
                                 ELSE /\ turns' = [turns EXCEPT ![t].pc = "capped"]
                                      /\ UNCHANGED <<abortRef, streamingShown>>
                  /\ roundsLeft' = IF nxt = 0 /\ roundsLeft > 0 THEN roundsLeft - 1
                                                                ELSE roundsLeft
                  /\ UNCHANGED isLoading
  /\ UNCHANGED <<uiVars, totalTokens, sessionRef, isNamedRef, sessions, clock,
                 teVars, chunksLeft>>

(***************************************************************************)
(* useChat.cancelStream, clearMessages, loadMessages; useMode; the         *)
(* handlers and effects of ChatInterface.                                  *)
(***************************************************************************)
\* A cancel that aborts every controller.
cancelStream_All(ts, ref) == [t \in Turns |-> [ts[t] EXCEPT !.aborted = TRUE]]

\* cancelStream: abortRef.current?.abort().
cancelStream(ts, ref) ==
  IF ref # NoTurn THEN [ts EXCEPT ![ref].aborted = TRUE] ELSE ts

\* The Esc branch of useInput: if (isLoading) cancelStream().
CancelStream ==
  /\ rIsLoading
  /\ UiBudget
  /\ uiOps' = Append(uiOps, Key("escape"))
  /\ turns' = cancelStream(turns, abortRef)
  /\ UNCHANGED <<mode, systemMessage, rIsLoading, rMode, rTokens, loopFrame,
                 teVars, roundsLeft,
                 chunksLeft>>

ToggleMode ==
  /\ UiBudget
  /\ uiOps' = Append(uiOps, Key("tab"))
  /\ mode' = IF mode = "PLAN" THEN "BUILDER" ELSE "PLAN"
  /\ UNCHANGED <<streamingShown, isLoading, totalTokens, systemMessage, rIsLoading, rMode,
                 rTokens, historyRef, abortRef, sessionRef, isNamedRef,
                 sessions, messages, turns, execLog, clock, teVars, roundsLeft,
                 chunksLeft>>

\* handleSubmit("/clear"): clearMessages().
SlashClear ==
  /\ UiBudget
  /\ uiOps' = Append(uiOps, Key("/clear"))
  /\ historyRef' = <<>>
  /\ totalTokens' = 0
  /\ streamingShown' = <<>>
  /\ UNCHANGED <<mode, systemMessage, rIsLoading, rMode, rTokens, isLoading, abortRef, sessionRef, isNamedRef, sessions,
                 messages, turns, execLog, clock, teVars, roundsLeft,
                 chunksLeft>>

\* handleNewSession: clearMessages(), startNewSession(), setSystemMessage(null).
handleNewSession ==
  /\ Len(sessions) < MaxSessions
  /\ historyRef' = <<>>
  /\ totalTokens' = 0
  /\ sessions' = createSession(sessions)
  /\ sessionRef' = Len(sessions) + 1
  /\ isNamedRef' = FALSE
  /\ systemMessage' = ""
  /\ streamingShown' = <<>>

\* handleSubmit("/new").
SlashNew ==
  /\ UiBudget
  /\ uiOps' = Append(uiOps, Key("/new"))
  /\ handleNewSession
  /\ UNCHANGED <<mode, isLoading, rIsLoading, rMode, rTokens, abortRef,
                 messages, turns, execLog, clock, teVars, roundsLeft,
                 chunksLeft>>

\* The notices of the other commands: "/help" and "/model" or "/theme"
\* without a name (a text), a command that is not known, "/model X" and
\* "/theme X" (also from the palette).
HelpText == "Available commands: ..."
UnknownCommand == "Unknown command. Type /help for available commands."
ModelChanged == "Model changed to X"
ThemeChanged == "Theme changed to X"

CommandNotices ==
  [help |-> HelpText, unknown |-> UnknownCommand, set_model |-> ModelChanged,
   set_theme |-> ThemeChanged]

\* handleSubmit of a command that only sets the notice: setSystemMessage(text).
SlashNotice(cmd) ==
  /\ UiBudget
  /\ uiOps' = Append(uiOps, Key(cmd))
  /\ systemMessage' = CommandNotices[cmd]
  /\ UNCHANGED <<streamingShown, mode, isLoading, totalTokens, rIsLoading, rMode,
                 rTokens, historyRef, abortRef, sessionRef, isNamedRef,
                 sessions, messages, turns, execLog, clock, teVars, roundsLeft,
                 chunksLeft>>

\* useSession.loadSession: the stored rows as history messages.
loadSession(table, sid) ==
  LET stored == getSessionMessages(table, sid)
  IN [k \in 1..Len(stored) |->
        HistMsg(stored[k].role, stored[k].content,
                loadedToolCalls(stored[k].tool_calls),
                stored[k].tool_call_id)]

\* handleSessionSelect: loadSession(s), loadMessages(msgs).
SelectSession(sid) ==
  /\ sid \in 1..Len(sessions)
  /\ sessions[sid] # DeletedSession
  /\ sessionRef' = sid
  /\ isNamedRef' = TRUE
  /\ historyRef' = loadSession(messages, sid)
  /\ UiBudget
  /\ uiOps' = Append(uiOps, Key("select"))
  /\ streamingShown' = <<>>
  /\ UNCHANGED <<mode, systemMessage, rIsLoading, rMode, rTokens, isLoading, totalTokens, abortRef, sessions, messages,
                 turns, execLog, clock, teVars, roundsLeft,
                 chunksLeft>>

\* A render: the callbacks are re-created over the current state, and the
\* token effect runs when totalTokens has changed since the last render.
Render ==
  /\ rIsLoading # isLoading \/ rMode # mode \/ rTokens # totalTokens
  /\ rIsLoading' = isLoading
  /\ rMode' = mode
  /\ rTokens' = totalTokens
  /\ IF rTokens # totalTokens /\ totalTokens >= TOKEN_LIMIT
       THEN handleNewSession
       ELSE /\ systemMessage' =
                 IF rTokens # totalTokens /\ totalTokens > TOKEN_WARN
                   THEN "Warning: Approaching token limit"
                   ELSE systemMessage
            /\ UNCHANGED <<streamingShown, historyRef, totalTokens, sessions, sessionRef,
                           isNamedRef>>
  /\ UNCHANGED <<mode, isLoading, abortRef, messages, turns, execLog, clock,
                 uiOps, teVars, roundsLeft,
                 chunksLeft>>

Next ==
  \/ \E t \in Turns, input \in UserInputs : SendMessage(t, input)
  \/ SendMessageIgnored
  \/ \E t \in Turns, c \in ContentChunks : ContentChunk(t, c)
  \/ \E t \in Turns, d \in ToolCallDeltas : ToolCallDelta(t, d)
  \/ \E t \in Turns, u \in Usages : UsageChunk(t, u)
  \/ \E t \in Turns : StreamDone(t)
  \/ \E t \in Turns : StreamAborted(t)
  \/ \E t \in Turns : StreamErrorChunk(t)
  \/ \E t \in Turns : StreamThrows(t)
  \/ \E t \in Turns, b \in LoopBehaviours : ToolSettles(t, b)
  \/ CancelStream
  \/ ToggleMode
  \/ SlashClear
  \/ SlashNew
  \/ \E sid \in 1..MaxSessions : SelectSession(sid)
  \/ \E cmd \in DOMAIN CommandNotices : SlashNotice(cmd)
  \/ Render

Spec == Init /\ [][Next]_vars

(***************************************************************************)
(* The loop with exceptions, under the scheduling the runtime gives: a     *)
(* pending render is committed, every stream ends and every tool call      *)
(* settles.                                                                *)
(***************************************************************************)
\* Something inside the try block throws: the catch block replaces the last
\* streaming message by the error (or appends the error), and the finally
\* block resets isLoading and the abort handle.  While a tool call is
\* awaited this is the call rejecting with a value that has no message
\* (null, undefined): the call has settled, and reading err.message in the
\* inner catch throws.
LoopThrows(t) ==
  /\ turns[t].pc \in {"stream", "exec"}
  /\ IF turns[t].pc = "exec"
       THEN LET tr == turns[t]
                calls == tr.finalToolCalls
                r == executeTool(calls[tr.idx].name, LoopCallMode, "throw")
            IN /\ r.outcome = "throw"
               /\ execLog' = Append(execLog, EndEvent(t, tr, tr.idx, calls, r))
       ELSE UNCHANGED execLog
  /\ turns' = [turns EXCEPT ![t].pc = "done"]
  /\ streamingShown' = finalizeStreaming(streamingShown)
  /\ isLoading' = FALSE
  /\ abortRef' = NoTurn
  /\ UNCHANGED <<uiVars, totalTokens, historyRef, sessionRef, isNamedRef,
                 sessions, messages, clock, teVars, roundsLeft,
                 chunksLeft>>

\* The awaited streamChat call of turn t returns.
StreamEnds(t) ==
  StreamDone(t) \/ StreamAborted(t) \/ StreamErrorChunk(t) \/ StreamThrows(t)

\* The steps of the loop itself, with the keys that reach it.
NextLive ==
  \/ \E t \in Turns, input \in UserInputs : SendMessage(t, input)
  \/ \E t \in Turns, d \in ToolCallDeltas : ToolCallDelta(t, d)
  \/ \E t \in Turns : StreamDone(t)
  \/ \E t \in Turns : StreamAborted(t)
  \/ \E t \in Turns : StreamErrorChunk(t)
  \/ \E t \in Turns : StreamThrows(t)
  \/ \E t \in Turns, b \in LoopBehaviours : ToolSettles(t, b)
  \/ \E t \in Turns : LoopThrows(t)
  \/ CancelStream
  \/ Render

SpecLive ==
  /\ Init
  /\ [][NextLive]_vars
  /\ WF_vars(Render)
  /\ \A t \in Turns : WF_vars(StreamEnds(t))
  /\ \A t \in Turns : WF_vars(\E b \in LoopBehaviours : ToolSettles(t, b))

(***************************************************************************)
(* Direct calls of executeTool, with every mode.                           *)
(***************************************************************************)
ToolNames == TOOL_REGISTRY \cup McpPrefixed \cup {"no_such_tool"}

InitTool ==
  /\ mode = "BUILDER"
  /\ isLoading = FALSE
  /\ totalTokens = 0
  /\ systemMessage = ""
  /\ rIsLoading = FALSE
  /\ rMode = "BUILDER"
  /\ rTokens = 0
  /\ historyRef = <<>>
  /\ abortRef = NoTurn
  /\ sessions = createSession(<<>>)
  /\ sessionRef = 1
  /\ isNamedRef = FALSE
  /\ messages = <<>>
  /\ turns = [t \in Turns |-> NewTurn]
  /\ execLog = <<>>
  /\ clock = 0
  /\ uiOps = <<>>
  /\ roundsLeft = MaxRounds
  /\ chunksLeft = MaxStreamed
  /\ streamingShown = <<>>
  /\ teCall \in [name : ToolNames, mode : CallModes, behav : Behaviours]
  /\ teResult = NoResult
  /\ fnArgs = <<>>
  /\ fnResult = <<>>

CallExecuteTool ==
  /\ teResult = NoResult
  /\ teResult' = executeTool(teCall.name, teCall.mode, teCall.behav)
  /\ UNCHANGED <<streamingShown, mode, isLoading, totalTokens, systemMessage, rIsLoading, rMode,
                 rTokens, historyRef, abortRef, sessionRef, isNamedRef,
                 sessions, messages, turns, execLog, clock, uiOps, roundsLeft, chunksLeft,
                 teCall, fnArgs, fnResult>>

NextTool == CallExecuteTool

SpecTool == InitTool /\ [][NextTool]_vars

(***************************************************************************)
(* The session store used directly: sessions are created, renamed and      *)
(* deleted and messages are saved to any of them, in any order, beside the *)
(* commands of the interface that touch the store.                         *)
(***************************************************************************)
StoreRoles == {"user", "assistant"}
StoreToolCalls == {ToolCallsNull, ToolCallsList(<<>>)}

\* The id that INTEGER PRIMARY KEY AUTOINCREMENT gives to the k-th row
\* inserted in the messages table.
rowId(k) == k

\* The ids of the rows that getSessionMessages returns, in the order it
\* returns them (ORDER BY id ASC).
getSessionMessageIds(table, sid) ==
  LET mine(k) == InSession(sid, table[k])
  IN SelectSeq([k \in 1..Len(table) |-> rowId(k)], mine)

StoreCreateSession ==
  /\ Len(sessions) < MaxSessions
  /\ sessions' = createSession(sessions)
  /\ UNCHANGED <<streamingShown, uiVars, isLoading, totalTokens, historyRef, abortRef,
                 sessionRef, isNamedRef, messages, turns, execLog, clock,
                 roundsLeft, chunksLeft, teVars>>

StoreSaveMessage(sid, role, toolCalls) ==
  /\ sid \in 1..Len(sessions)
  /\ sessions[sid] # DeletedSession
  /\ Len(messages) < MaxRows
  /\ messages' = saveMessage(messages, sid, role, Content(<<"text">>, "", ""),
                             toolCalls, NoId, "")
  /\ UNCHANGED <<streamingShown, uiVars, isLoading, totalTokens, historyRef, abortRef,
                 sessionRef, isNamedRef, sessions, turns, execLog, clock,
                 roundsLeft, chunksLeft, teVars>>

StoreNames == {<<"r">>}

StoreRenameSession(sid, name) ==
  /\ sid \in 1..Len(sessions)
  /\ sessions[sid] \notin {DeletedSession, name}
  /\ sessions' = renameSession(sessions, sid, name)
  /\ UNCHANGED <<streamingShown, uiVars, isLoading, totalTokens, historyRef, abortRef,
                 sessionRef, isNamedRef, messages, turns, execLog, clock,
                 roundsLeft, chunksLeft, teVars>>

StoreDeleteSession(sid) ==
  /\ sid \in 1..Len(sessions)
  /\ sessions[sid] # DeletedSession
  /\ sessions' = deleteSession(sessions, sid)
  /\ messages' = onDeleteCascade(messages, sid)
  /\ UNCHANGED <<streamingShown, uiVars, isLoading, totalTokens, historyRef, abortRef,
                 sessionRef, isNamedRef, turns, execLog, clock, roundsLeft, chunksLeft,
                 teVars>>

NextStore ==
  \/ StoreCreateSession
  \/ \E sid \in 1..MaxSessions, role \in StoreRoles, tc \in StoreToolCalls :
       StoreSaveMessage(sid, role, tc)
  \/ \E sid \in 1..MaxSessions, name \in StoreNames : StoreRenameSession(sid, name)
  \/ \E sid \in 1..MaxSessions : StoreDeleteSession(sid)
  \/ SlashNew
  \/ SlashClear
  \/ \E sid \in 1..MaxSessions : SelectSession(sid)

SpecStore == Init /\ [][NextStore]_vars

(***************************************************************************)
(* One function of the program called directly: the rest of the program is *)
(* as it is after construction and stays so.                               *)
(***************************************************************************)
Idle ==
  /\ mode = "BUILDER"
  /\ isLoading = FALSE
  /\ totalTokens = 0
  /\ systemMessage = ""
  /\ rIsLoading = FALSE
  /\ rMode = "BUILDER"
  /\ rTokens = 0
  /\ historyRef = <<>>
  /\ abortRef = NoTurn
  /\ sessions = createSession(<<>>)
  /\ sessionRef = 1
  /\ isNamedRef = FALSE
  /\ messages = <<>>
  /\ turns = [t \in Turns |-> NewTurn]
  /\ execLog = <<>>
  /\ clock = 0
  /\ uiOps = <<>>
  /\ roundsLeft = MaxRounds
  /\ chunksLeft = MaxStreamed
  /\ streamingShown = <<>>
  /\ teCall = NoCall
  /\ teResult = NoResult

idleVars == <<mode, isLoading, totalTokens, systemMessage, rIsLoading, rMode,
              rTokens, historyRef, abortRef, sessionRef, isNamedRef, sessions,
              messages, turns, execLog, clock, uiOps, roundsLeft, chunksLeft,
          teCall,
              teResult, streamingShown>>

\* The sequences over S of length at most n.
SeqsUpTo(S, n) == UNION {[1..k -> S] : k \in 0..n}

(***************************************************************************)
(* parseModelOutput called as the stream does: on the raw buffer after     *)
(* each piece of it has arrived (updateStreamingMessage), the last time on *)
(* the whole buffer, and once more on the content it returned.             *)
(***************************************************************************)
RawTokens ==
  {Text, Space, ThinkOpen, ThinkClose, ToolOpen, ToolClose, "<thi", "<div",
   LessThan}

InitParser ==
  /\ Idle
  /\ fnArgs \in SeqsUpTo(RawTokens, MaxRawLen)
  /\ fnResult = <<>>

ParsePrefix ==
  /\ Len(fnResult) <= Len(fnArgs)
  /\ fnResult' =
       Append(fnResult, parseModelOutput(SubSeq(fnArgs, 1, Len(fnResult))))
  /\ UNCHANGED <<idleVars, fnArgs>>

ParseAgain ==
  /\ Len(fnResult) = Len(fnArgs) + 1
  /\ fnResult' =
       Append(fnResult, parseModelOutput(fnResult[Len(fnResult)].content))
  /\ UNCHANGED <<idleVars, fnArgs>>

NextParser == ParsePrefix \/ ParseAgain

SpecParser == InitParser /\ [][NextParser]_vars

(***************************************************************************)
(* edit_file.execute (tools/edit_file.ts) called directly.  A file is a    *)
(* sequence of characters, or does not exist.                              *)
(***************************************************************************)
FileChars == {"a", "b"}
MaxNewLen == 2
\* The grave accent (U+0060) and the apostrophe, as characters of a string.
Grave == "grave"
Apostrophe == "apostrophe"
NewChars == {"c", "$", "&", "1", Grave, Apostrophe}
NewStrs == SeqsUpTo(NewChars, MaxNewLen)

\* content.indexOf(sep) from position p (0-based), -1 for none.
RECURSIVE indexOfFrom(_, _, _)
indexOfFrom(content, sep, p) ==
  IF p + Len(sep) > Len(content) THEN -1
  ELSE IF SubSeq(content, p + 1, p + Len(sep)) = sep THEN p
  ELSE indexOfFrom(content, sep, p + 1)

\* The number of pieces of content.split(sep) from position p on, for a
\* separator that is not empty: the search resumes after each match.
RECURSIVE splitPieces(_, _, _)
splitPieces(content, sep, p) ==
  LET q == indexOfFrom(content, sep, p)
  IN IF q = -1 THEN 1 ELSE 1 + splitPieces(content, sep, q + Len(sep))

\* content.split(sep).length: an empty separator splits between every two
\* characters, and the empty string into no piece at all.
splitLength(content, sep) ==
  IF sep = <<>> THEN Len(content) ELSE splitPieces(content, sep, 0)

Dollar == "$"

\* The replacement text String.prototype.replace builds from a replacement
\* string when the pattern is a string (no capture groups): "$$" is "$",
\* "$&" the matched text, "$" with a grave accent the text before the match,
\* "$" with an apostrophe the text after it; any other "$" stands for itself.
RECURSIVE getSubstitution(_, _, _, _)
getSubstitution(matched, before, after, replacement) ==
  IF replacement = <<>> THEN <<>>
  ELSE IF replacement[1] = Dollar /\ Len(replacement) >= 2
            /\ replacement[2] \in {Dollar, "&", Grave, Apostrophe}
    THEN (CASE replacement[2] = Dollar -> <<Dollar>>
            [] replacement[2] = "&" -> matched
            [] replacement[2] = Grave -> before
            [] replacement[2] = Apostrophe -> after)
         \o getSubstitution(matched, before, after,
                            SubSeq(replacement, 3, Len(replacement)))
  ELSE <<replacement[1]>>
       \o getSubstitution(matched, before, after, Tail(replacement))

\* content.replace(old_str, new_str) with a string pattern: the first
\* occurrence only.
replaceFirst(content, old, new) ==
  LET q == indexOfFrom(content, old, 0)
      before == SubSeq(content, 1, q)
      after == SubSeq(content, q + Len(old) + 1, Len(content))
  IN IF q = -1 THEN content
     ELSE before \o getSubstitution(old, before, after, new) \o after

FileNotFound == "Error: File not found"
OldStrNotFound == "Error: old_str not found"
OldStrNotUnique == "Error: old_str found N times. It must be unique."
FileEdited == "File edited successfully"

\* const occurrences = content.split(args.old_str).length - 1.
editOccurrences(content, old) == splitLength(content, old) - 1

\* execute up to its first await: existsSync(args.path), then the content
\* that file.text() reads.
editFileRead(file) ==
  IF ~file.exists
    THEN [pc |-> "returned", content |-> <<>>, text |-> FileNotFound]
    ELSE [pc |-> "read", content |-> file.content, text |-> ""]

\* execute from the content read to its return: the count, the replacement
\* and Bun.write of the new content.  The text returned, the count it names,
\* and the file afterwards.
editFileWrite(file, content, old, new) ==
  LET occurrences == editOccurrences(content, old)
  IN IF occurrences = 0
       THEN [text |-> OldStrNotFound, times |-> 0, file |-> file]
     ELSE IF occurrences > 1
       THEN [text |-> OldStrNotUnique, times |-> occurrences, file |-> file]
     ELSE [text |-> FileEdited, times |-> 0,
           file |-> [exists |-> TRUE, content |-> replaceFirst(content, old, new)]]

Files ==
  {[exists |-> FALSE, content |-> <<>>]} \cup
  {[exists |-> TRUE, content |-> c] : c \in SeqsUpTo(FileChars, MaxFileLen)}

\* The calls in flight on one file: one call with any arguments, or two
\* calls that replace one character of the file each.
MaxEditCalls == 2
EditCalls == [old_str : SeqsUpTo(FileChars, MaxOldLen), new_str : NewStrs]
SmallEditCalls == [old_str : {<<"a">>, <<"b">>}, new_str : {<<"c">>}]

NotStarted ==
  [pc |-> "start", content |-> <<>>, text |-> "", times |-> 0,
   before |-> [exists |-> FALSE, content |-> <<>>],
   after |-> [exists |-> FALSE, content |-> <<>>]]

InitEdit ==
  /\ Idle
  /\ fnArgs \in [file : Files, calls : [1..1 -> EditCalls]]
                \cup [file : Files, calls : [1..MaxEditCalls -> SmallEditCalls]]
  /\ fnResult = [file |-> fnArgs.file,
                 calls |-> [k \in 1..Len(fnArgs.calls) |-> NotStarted]]

\* Call k is made and runs to its first await; the read completes.
EditReads(k) ==
  /\ k \in 1..Len(fnArgs.calls)
  /\ fnResult.calls[k].pc = "start"
  /\ LET r == editFileRead(fnResult.file)
     IN fnResult' =
          [fnResult EXCEPT !.calls[k] =
             [pc |-> r.pc, content |-> r.content, text |-> r.text, times |-> 0,
              before |-> fnResult.file, after |-> fnResult.file]]
  /\ UNCHANGED <<idleVars, fnArgs>>

\* Call k goes on from the content it read: it returns an error text, or
\* its write of the new content lands in the file, and the call waits for
\* the completion of Bun.write.
EditWrites(k) ==
  /\ k \in 1..Len(fnArgs.calls)
  /\ fnResult.calls[k].pc = "read"
  /\ LET w == editFileWrite(fnResult.file, fnResult.calls[k].content,
                            fnArgs.calls[k].old_str, fnArgs.calls[k].new_str)
     IN fnResult' =
          [file |-> w.file,
           calls |-> [fnResult.calls EXCEPT
                        ![k] = [pc |-> IF w.text = FileEdited THEN "written"
                                                              ELSE "returned",
                                content |-> @.content,
                                text |-> IF w.text = FileEdited THEN "" ELSE w.text,
                                times |-> w.times,
                                before |-> fnResult.file, after |-> w.file]]]
  /\ UNCHANGED <<idleVars, fnArgs>>

\* The completion of the write is delivered: call k returns its text.
EditReturns(k) ==
  /\ k \in 1..Len(fnArgs.calls)
  /\ fnResult.calls[k].pc = "written"
  /\ fnResult' = [fnResult EXCEPT !.calls[k].pc = "returned",
                                  !.calls[k].text = FileEdited]
  /\ UNCHANGED <<idleVars, fnArgs>>

NextEdit ==
  \E k \in 1..MaxEditCalls : EditReads(k) \/ EditWrites(k) \/ EditReturns(k)

SpecEdit == InitEdit /\ [][NextEdit]_vars

(***************************************************************************)
(* The arguments of an XML tool call: coerceArg (core/parser.ts) on each   *)
(* value, JSON.stringify of the map, and JSON.parse of the string before   *)
(* the tool runs (useChat.sendMessage).  A string is a sequence of         *)
(* characters; a value of JavaScript is its type with the text that        *)
(* String(value) gives, or for an array or object its JSON text.           *)
(***************************************************************************)
True == <<"t", "r", "u", "e">>
False == <<"f", "a", "l", "s", "e">>
Null == <<"n", "u", "l", "l">>

JsValue(type, text) == [type |-> type, text |-> text]

(***************************************************************************)
(* Numbers.  A natural number of any size is the sequence of its limbs in  *)
(* base LimbBase, least significant first, with no leading zero limb (zero *)
(* is the empty sequence).  A double is zero, infinite, or m * 2^e with m  *)
(* a natural number below 2^53 and e >= MinExp (m >= 2^52 unless e is      *)
(* MinExp).  The operators on sequences halve their range, which keeps the *)
(* depth of the evaluation small, and an intermediate result is named by   *)
(* The({e : x \in {v}}): v is computed once and e finds x computed.        *)
(***************************************************************************)
\* A limb holds four decimal digits; a product of a limb and a factor of at
\* most 2^15 or 5^6 stays within the integers of the checker.
LimbBase == 10 ^ 4
LimbDigits == CHOOSE n \in 1..9 : 10 ^ n = LimbBase
TwoTo15 == 2 ^ 15
FiveTo6 == 5 ^ 6
\* The exponents of the least and of the greatest double, with a mantissa
\* of 53 bits.
MinExp == -1074
MaxExp == 971
\* 2^52 and 2^53.
TwoTo52 == <<496, 2737, 5996, 4503>>
TwoTo53 == <<992, 5474, 1992, 9007>>
\* No decimal of 310 digits or more before the point is finite, none below
\* 10^-324 is above half the least double.
MaxMagnitude == 309
MinMagnitude == -324
\* Number::toString writes plain decimals below 10^21 and from 10^-6.
MaxPlainMagnitude == 21
MinPlainMagnitude == -6
\* 17 significant digits tell every double from its neighbours.
MaxSignificant == 17
\* log2(10) is about 3.3219, in units of 1 / Log2Of10Den.
Log2Of10Den == LimbBase
Log2Of10Num == (3 * Log2Of10Den) + 3219
\* The limbs of a quotient below 10^24.
QuotientLimbs == 24 \div LimbDigits

\* The least element of a set of numbers, 0 for the empty set.
Least(I) == IF I = {} THEN 0 ELSE CHOOSE i \in I : \A j \in I : i <= j

\* The greatest index in 1..hi where s differs from z, or 0.
lastNot(s, z, hi) ==
  IF hi >= 1 /\ s[hi] # z THEN hi
  ELSE IF hi >= 2 /\ s[hi - 1] # z THEN hi - 1
  ELSE IF hi >= 3 /\ s[hi - 2] # z THEN hi - 2
  ELSE The({Greatest(I) : I \in {{i \in 1..hi : s[i] # z}}})

\* The least index in 1..hi where s differs from z, or 0.
firstNot(s, z, hi) ==
  IF hi >= 1 /\ s[1] # z THEN 1
  ELSE The({Least(I) : I \in {{i \in 1..hi : s[i] # z}}})

bnTrim(a) == SubSeq(a, 1, lastNot(a, 0, Len(a)))

limbAt(a, i) == IF i <= Len(a) THEN a[i] ELSE 0

PowersOfTwo == {1, 2, 4, 8, 16, 32, 64, 128, 256, 512, 1024}

\* The least power of two that is n at least.
powerOfTwoFrom(n) == Least({p \in PowersOfTwo : p >= n})

\* The limbs of c, a number below LimbBase^2, and zeros: len + 1 limbs.
spill(c, len) ==
  [i \in 1..(len + 1) |->
     IF i = 1 THEN c % LimbBase ELSE IF i = 2 THEN c \div LimbBase ELSE 0]

\* The len limbs from limb lo of a * k + carry, then the carry out, for k
\* up to TwoTo15 and len a power of two.
RECURSIVE bnMulSmallIn(_, _, _, _, _)
bnMulSmallIn(a, k, lo, len, carry) ==
  IF len = 1
    THEN The({<<t % LimbBase, t \div LimbBase>> : t \in {limbAt(a, lo) * k + carry}})
  ELSE IF lo > Len(a) THEN spill(carry, len) \o <<>>
  ELSE The({SubSeq(low, 1, len \div 2)
              \o bnMulSmallIn(a, k, lo + len \div 2, len \div 2, low[(len \div 2) + 1])
            : low \in {bnMulSmallIn(a, k, lo, len \div 2, carry)}})

\* s cut after limb n and trimmed.
bnTrimTo(s, n) == bnTrim(SubSeq(s, 1, IF Len(s) < n THEN Len(s) ELSE n))

bnMulSmall(a, k) ==
  IF k = 0 \/ a = <<>> THEN <<>>
  ELSE The({bnTrimTo(r, Len(a) + 2)
            : r \in {bnMulSmallIn(a, k, 1, powerOfTwoFrom(Len(a) + 2), 0)}})

\* The len limbs from limb lo of a + b + carry, then the carry out.
RECURSIVE bnAddIn(_, _, _, _, _)
bnAddIn(a, b, lo, len, carry) ==
  IF len = 1
    THEN The({<<t % LimbBase, t \div LimbBase>>
              : t \in {limbAt(a, lo) + limbAt(b, lo) + carry}})
  ELSE IF lo > Len(a) /\ lo > Len(b) THEN spill(carry, len) \o <<>>
  ELSE The({SubSeq(low, 1, len \div 2)
              \o bnAddIn(a, b, lo + len \div 2, len \div 2, low[(len \div 2) + 1])
            : low \in {bnAddIn(a, b, lo, len \div 2, carry)}})

\* The greater of two numbers.
Max(i, j) == IF i > j THEN i ELSE j

bnAdd(a, b) ==
  The({bnTrimTo(r, Max(Len(a), Len(b)) + 1)
       : r \in {bnAddIn(a, b, 1, powerOfTwoFrom(Max(Max(Len(a), Len(b)), 1)), 0)}})

\* The len limbs from limb lo of a - b - borrow, then the borrow out.
RECURSIVE bnSubIn(_, _, _, _, _)
bnSubIn(a, b, lo, len, borrow) ==
  IF len = 1
    THEN The({IF t < 0 THEN <<t + LimbBase, 1>> ELSE <<t, 0>>
              : t \in {limbAt(a, lo) - limbAt(b, lo) - borrow}})
  ELSE IF lo > Len(a) THEN spill(0, len) \o <<>>
  ELSE The({SubSeq(low, 1, len \div 2)
              \o bnSubIn(a, b, lo + len \div 2, len \div 2, low[(len \div 2) + 1])
            : low \in {bnSubIn(a, b, lo, len \div 2, borrow)}})

\* a - b for a >= b.
bnSub(a, b) ==
  IF a = <<>> THEN <<>>
  ELSE The({bnTrimTo(d, Len(a)) : d \in {bnSubIn(a, b, 1, powerOfTwoFrom(Len(a)), 0)}})

\* The greatest index in lo..hi where a and b differ, or 0.
RECURSIVE lastDiff(_, _, _, _)
lastDiff(a, b, lo, hi) ==
  IF lo > hi THEN 0
  ELSE IF lo = hi THEN (IF a[lo] # b[lo] THEN lo ELSE 0)
  ELSE The({The({IF up # 0 THEN up ELSE lastDiff(a, b, lo, mid)
         : up \in {lastDiff(a, b, mid + 1, hi)}})
         : mid \in {(lo + hi) \div 2}})

\* -1, 0 or 1 as a is below, equal to or above b.
bnCmp(a, b) ==
  IF Len(a) > Len(b) THEN 1
  ELSE IF Len(a) < Len(b) THEN -1
  ELSE IF a = <<>> THEN 0
  ELSE IF a[Len(a)] # b[Len(a)] THEN (IF a[Len(a)] > b[Len(a)] THEN 1 ELSE -1)
  ELSE The({IF i = 0 THEN 0 ELSE IF a[i] > b[i] THEN 1 ELSE -1
            : i \in {lastDiff(a, b, 1, Len(a) - 1)}})

pow10Small(n) == IF n = 0 THEN 1 ELSE IF n = 1 THEN 10 ELSE IF n = 2 THEN 100 ELSE 1000

\* a * LimbBase^k.
bnShiftLimbs(a, k) == IF a = <<>> THEN <<>> ELSE [i \in 1..k |-> 0] \o a

\* a * 10^n.
bnMulPow10(a, n) ==
  The({bnShiftLimbs(p, n \div LimbDigits)
       : p \in {bnMulSmall(a, pow10Small(n % LimbDigits))}})

\* 2^n for n up to 15 and 5^n for n up to 6.
RECURSIVE smallPow(_, _)
smallPow(b, n) == IF n = 0 THEN 1 ELSE b * smallPow(b, n - 1)

\* About half of n in whole steps, one step at least.
halfOf(n, step) ==
  IF (n \div step) \div 2 = 0 THEN step ELSE step * ((n \div step) \div 2)

\* a * 2^n.
RECURSIVE bnMulPow2(_, _)
bnMulPow2(a, n) ==
  IF n <= 15 THEN The({bnMulSmall(a, k) : k \in {smallPow(2, n)}})
  ELSE The({The({bnMulPow2(first, n - h)
         : first \in {bnMulPow2(a, h)}})
         : h \in {halfOf(n, 15)}})

\* a * 5^n.
RECURSIVE bnMulPow5(_, _)
bnMulPow5(a, n) ==
  IF n <= 6 THEN The({bnMulSmall(a, k) : k \in {smallPow(5, n)}})
  ELSE The({The({bnMulPow5(first, n - h)
         : first \in {bnMulPow5(a, h)}})
         : h \in {halfOf(n, 6)}})

\* a * b from limb i of b on, for a b of few limbs.
RECURSIVE bnMulAt(_, _, _)
bnMulAt(a, b, i) ==
  IF i > Len(b) THEN <<>>
  ELSE The({The({bnAdd(part, rest)
         : part \in {bnShiftLimbs(p, i - 1)}})
         : p \in {bnMulSmall(a, b[i])}, rest \in {bnMulAt(a, b, i + 1)}})

bnMul(a, b) == The({bnTrim(p) : p \in {bnMulAt(a, b, 1)}})

\* The value of up to four decimal digits.
RECURSIVE limbOfDigits(_)
limbOfDigits(ds) ==
  IF ds = <<>> THEN 0
  ELSE (limbOfDigits(SubSeq(ds, 1, Len(ds) - 1)) * 10) + digitValue(ds[Len(ds)])

\* Limb i of the number that the digits ds spell.
limbOf(ds, i) ==
  LET last == Len(ds) - LimbDigits * (i - 1)
      first == IF last - LimbDigits + 1 < 1 THEN 1 ELSE last - LimbDigits + 1
  IN limbOfDigits(SubSeq(ds, first, last))

\* The number a sequence of decimal digits spells.
bnFromDigits(ds) ==
  The({bnTrim(limbs)
       : limbs \in {[i \in 1..((Len(ds) + LimbDigits - 1) \div LimbDigits) |->
                       limbOf(ds, i)] \o <<>>}})

limbDigitsOf(v) ==
  <<DigitChars[(v \div 1000) + 1], DigitChars[((v \div 100) % 10) + 1],
    DigitChars[((v \div 10) % 10) + 1], DigitChars[(v % 10) + 1]>>

\* ds without its leading zeros, but for the last digit.
stripLeadingZeros(ds) ==
  IF ds = <<>> THEN ds
  ELSE The({IF i = 0 THEN <<ds[Len(ds)]>> ELSE SubSeq(ds, i, Len(ds))
            : i \in {firstNot(ds, "0", Len(ds) - 1)}})

stripTrailingZeros(ds) == SubSeq(ds, 1, lastNot(ds, "0", Len(ds)))

\* The decimal digits of a, most significant first ("0" for zero).
bnDigits(a) ==
  IF a = <<>> THEN <<"0">>
  ELSE The({stripLeadingZeros(ds)
            : ds \in {[j \in 1..(LimbDigits * Len(a)) |->
                         limbDigitsOf(a[Len(a) - ((j - 1) \div LimbDigits)])
                           [((j - 1) % LimbDigits) + 1]] \o <<>>}})

\* The number of decimal digits of a (0 for zero).
bnLength(a) ==
  IF a = <<>> THEN 0
  ELSE LET top == a[Len(a)]
       IN LimbDigits * (Len(a) - 1)
          + (IF top >= 1000 THEN 4 ELSE IF top >= 100 THEN 3 ELSE IF top >= 10 THEN 2 ELSE 1)

\* The greatest q below LimbBase with q * d <= cur, for cur < d * LimbBase
\* and d's top limb LimbBase / 2 at least: the quotient of the top limbs
\* or one or two below it.
divLimb(cur, d) ==
  IF bnCmp(cur, d) < 0 THEN 0
  ELSE The({Greatest({q \in Max(est - 2, 0)..est
                      : The({bnCmp(p, cur) <= 0 : p \in {bnMulSmall(d, q)}})})
            : est \in {LET top == (limbAt(cur, Len(d) + 1) * LimbBase)
                                  + limbAt(cur, Len(d))
                       IN IF top \div d[Len(d)] >= LimbBase THEN LimbBase - 1
                          ELSE top \div d[Len(d)]}})

\* One limb of a quotient, and what is left of cur.
divStep(cur, d) ==
  The({The({[q |-> q, rem |-> bnSub(cur, taken)]
    : taken \in {bnMulSmall(d, q)}})
    : q \in {divLimb(cur, d)}})

\* Long division: limbs i down to 1 of r are still to bring down to rem,
\* quot holds the limbs found.
RECURSIVE bnDivFrom(_, _, _, _, _)
bnDivFrom(r, d, i, rem, quot) ==
  IF i = 0 THEN [quot |-> bnTrim(quot), rem |-> rem]
  ELSE The({bnDivFrom(r, d, i - 1, st.rem, <<st.q>> \o quot)
            : st \in {The({divStep(cur, d) : cur \in {bnTrim(<<r[i]>> \o rem)}})}})

\* The quotient of p by q, for a quotient below LimbBase^QuotientLimbs,
\* and what is left as rem / den: both numbers are first multiplied to
\* bring the top limb of q to LimbBase / 2 at least.
bnDiv(p, q) ==
  The({The({The({[quot |-> r.quot, rem |-> r.rem, den |-> qn]
    : r \in {bnDivFrom(pn, qn, Max(0, IF Len(pn) < QuotientLimbs THEN Len(pn) ELSE QuotientLimbs),
                       SubSeq(pn, QuotientLimbs + 1, Len(pn)), <<>>)}})
    : pn \in {bnMulSmall(p, f)}, qn \in {bnMulSmall(q, f)}})
    : f \in {LimbBase \div (q[Len(q)] + 1)}})

Zero == [cls |-> "zero", m |-> <<>>, e |-> 0]
Inf == [cls |-> "inf", m |-> <<>>, e |-> 0]
Finite(m, e) == [cls |-> "finite", m |-> m, e |-> e]

\* About log2 of 10^n, for n of either sign.
log2Pow10(n) ==
  IF n >= 0 THEN (n * Log2Of10Num) \div Log2Of10Den
            ELSE -(((-n) * Log2Of10Num) \div Log2Of10Den)

\* a / b = (p / q) * 2^e.
scaled(a, b, e) ==
  [p |-> IF e < 0 THEN bnMulPow2(a, -e) ELSE a,
   q |-> IF e > 0 THEN bnMulPow2(b, e) ELSE b,
   e |-> e]

\* The exponent e moved until 2^52 <= p / q < 2^53 or, at MinExp,
\* p / q < 2^53; with the quotient and the remainder of p by q.
RECURSIVE fitMantissa(_, _, _)
fitMantissa(p, q, e) ==
  The({IF bnCmp(d.quot, TwoTo53) >= 0
         THEN The({fitMantissa(p, q2, e + 1) : q2 \in {bnMulSmall(q, 2)}})
       ELSE IF bnCmp(d.quot, TwoTo52) < 0 /\ e > MinExp
         THEN The({fitMantissa(p2, q, e - 1) : p2 \in {bnMulSmall(p, 2)}})
       ELSE [m |-> d.quot, rem |-> d.rem, q |-> d.den, e |-> e]
       : d \in {bnDiv(p, q)}})

\* m + rem / q rounded to the nearest whole number, a tie to the even
\* one, times 2^e as a double.
roundHalfEven(f) ==
  The({The({The({IF m = <<>> THEN Zero
                 ELSE IF m = TwoTo53
                   THEN (IF f.e + 1 > MaxExp THEN Inf ELSE Finite(TwoTo52, f.e + 1))
                 ELSE IF f.e > MaxExp THEN Inf
                 ELSE Finite(m, f.e)
    : m \in {IF half > 0 \/ (half = 0 /\ f.m # <<>> /\ f.m[1] % 2 = 1)
               THEN bnAdd(f.m, <<1>>) ELSE f.m}})
    : half \in {bnCmp(twice, f.q)}})
    : twice \in {bnMulSmall(f.rem, 2)}})

\* The double nearest to n * 10^x, ties to the even mantissa.
toDouble(n, x) ==
  IF n = <<>> THEN Zero
  ELSE IF bnLength(n) + x - 1 >= MaxMagnitude THEN Inf
  ELSE IF bnLength(n) + x <= MinMagnitude THEN Zero
  ELSE The({The({The({roundHalfEven(f)
         : f \in {fitMantissa(s.p, s.q, s.e)}})
         : s \in {scaled(a, b, IF guess < MinExp THEN MinExp ELSE guess)}})
         : a \in {IF x >= 0 THEN bnMulPow10(n, x) ELSE n},
           b \in {IF x >= 0 THEN <<1>> ELSE bnMulPow10(<<1>>, -x)},
           guess \in {log2Pow10(bnLength(n) + x) - 53}})

\* rest against one half of the unit of the digit before it.
cmpHalf(rest) ==
  IF rest = <<>> \/ digitValue(rest[1]) < 5 THEN -1
  ELSE IF digitValue(rest[1]) > 5 THEN 1
  ELSE IF \A i \in 2..Len(rest) : rest[i] = "0" THEN 0 ELSE 1

zeros(n) == [i \in 1..n |-> "0"]

\* The value of a finite double d and the bounds of the decimals that read
\* back as d, as whole numbers of the unit 10^x: the bounds lie half-way to
\* the doubles next to d (the double below a power of two is nearer).
decimalBounds(d) ==
  The({The({[value |-> bnMul(t, m4),
             low |-> bnMul(t, under),
             high |-> bnMul(t, over),
             closed |-> d.m[1] % 2 = 0,
             x |-> IF d.e - 2 >= 0 THEN 0 ELSE d.e - 2]
    : under \in {bnSub(m4, IF d.m = TwoTo52 /\ d.e > MinExp THEN <<1>> ELSE <<2>>)},
      over \in {bnAdd(m4, <<2>>)}})
    : t \in {IF d.e - 2 >= 0 THEN bnMulPow2(<<1>>, d.e - 2)
                             ELSE bnMulPow5(<<1>>, 2 - d.e)},
      m4 \in {bnMulSmall(d.m, 4)}})

inBounds(c, b) ==
  IF b.closed THEN bnCmp(b.low, c) <= 0 /\ bnCmp(c, b.high) <= 0
              ELSE bnCmp(b.low, c) < 0 /\ bnCmp(c, b.high) < 0

\* The digits of k digits nearest to the value with digits s, when they
\* read back as the double with bounds b: the value cut after k digits or
\* the next above it.
nearestOf(b, s, k) ==
  The({The({The({The({
        [k |-> k,
         ok |-> loOk \/ hiOk,
         digits |-> stripTrailingZeros(chosen),
         n |-> Len(chosen) + (Len(s) - k) + b.x]
    : chosen \in {bnDigits(IF hiOk /\ (~loOk \/ c > 0 \/ (c = 0 /\ lo[1] % 2 = 1))
                             THEN hi ELSE lo)}})
    : loOk \in {inBounds(loAt, b)}, hiOk \in {inBounds(hiAt, b)}})
    : loAt \in {bnMulPow10(lo, Len(s) - k)}, hiAt \in {bnMulPow10(hi, Len(s) - k)}})
    : lo \in {bnFromDigits(SubSeq(s, 1, k))},
      hi \in {bnAdd(bnFromDigits(SubSeq(s, 1, k)), <<1>>)},
      c \in {cmpHalf(SubSeq(s, k + 1, Len(s)))}})

\* The shortest digits that read back as the double, the nearest to it of
\* that length: b its bounds, s the digits of its value.
shortestOf(b, s) ==
  The({IF \E c \in C : c.ok
         THEN CHOOSE c \in C : c.ok /\ \A o \in C : o.ok => c.k <= o.k
         ELSE [k |-> Len(s), ok |-> TRUE, digits |-> stripTrailingZeros(s),
               n |-> Len(s) + b.x]
       : C \in {{nearestOf(b, s, k)
                 : k \in 1..(IF Len(s) < MaxSignificant THEN Len(s) ELSE MaxSignificant)}}})

shortest(d) ==
  The({The({shortestOf(b, s) : s \in {bnDigits(b.value)}}) : b \in {decimalBounds(d)}})

Infinity == <<"Infinity">>

\* d is 0.s * 10^n, written as Number::toString writes it.
writeDigits(s, n) ==
  IF Len(s) <= n /\ n <= MaxPlainMagnitude THEN s \o zeros(n - Len(s))
  ELSE IF 0 < n /\ n <= MaxPlainMagnitude
    THEN SubSeq(s, 1, n) \o <<".">> \o SubSeq(s, n + 1, Len(s))
  ELSE IF MinPlainMagnitude < n /\ n <= 0
    THEN <<"0", ".">> \o zeros(-n) \o s
  ELSE (IF Len(s) = 1 THEN s ELSE <<s[1], ".">> \o Tail(s))
       \o <<"e", IF n - 1 < 0 THEN "-" ELSE "+">>
       \o natDigits(IF n - 1 < 0 THEN 1 - n ELSE n - 1)

\* Number::toString(d), radix 10.
numberToString(d) ==
  IF d.cls = "zero" THEN <<"0">>
  ELSE IF d.cls = "inf" THEN Infinity
  ELSE The({writeDigits(sh.digits, sh.n) : sh \in {shortest(d)}})

\* StringToNumber of digits, a point, digits, and an exponent of ten.
decimalToDouble(whole, frac, exp) ==
  The({The({toDouble(n, exp - Len(frac)) : n \in {bnFromDigits(ds)}})
       : ds \in {whole \o frac}})

\* The text of the Number that digits, a point, digits and an exponent of
\* ten read as.
numberText(whole, frac, exp) ==
  The({numberToString(d) : d \in {decimalToDouble(whole, frac, exp)}})

\* /^\d+$/.test(value).
IsDigits(value) == value # <<>> /\ \A i \in 1..Len(value) : value[i] \in Digits

\* /^\d+\.\d+$/.test(value).
IsFloat(value) ==
  \E d \in 1..Len(value) :
    /\ value[d] = "."
    /\ IsDigits(SubSeq(value, 1, d - 1))
    /\ IsDigits(SubSeq(value, d + 1, Len(value)))

\* parseInt(value, 10) of a string of digits: the double nearest to the
\* integer.
parseInt(value) == JsValue("number", numberText(value, <<>>, 0))

\* A reading that keeps the digits as they are.
parseInt_Exact(value) == JsValue("number", stripLeadingZeros(value))

\* parseFloat(value) of digits, a dot, digits.
parseFloat(value) ==
  LET d == CHOOSE i \in 1..Len(value) : value[i] = "."
  IN JsValue("number",
             numberText(SubSeq(value, 1, d - 1), SubSeq(value, d + 1, Len(value)), 0))

NotSpace(c) == c # Space

\* The JSON texts of arrays and objects that the model knows, without
\* their white space.
JsonTexts == {<<"[", "]">>, <<"[", "1", "]">>, <<"{", "}">>}

\* JSON.parse(value) succeeds.
IsJson(value) == SelectSeq(value, NotSpace) \in JsonTexts

\* JSON.parse(value) for the text of an array or object.
JSONparseText(value) ==
  JsValue(IF value[1] = "[" THEN "array" ELSE "object", SelectSeq(value, NotSpace))

coerceArg(value) ==
  IF value = True THEN JsValue("boolean", True)
  ELSE IF value = False THEN JsValue("boolean", False)
  ELSE IF IsDigits(value) THEN parseInt(value)
  ELSE IF IsFloat(value) THEN parseFloat(value)
  ELSE IF value # <<>> /\ value[1] \in {"[", "{"}
    THEN IF IsJson(value) THEN JSONparseText(value) ELSE JsValue("string", value)
  ELSE JsValue("string", value)

\* JSON.stringify of one value: a number that is not finite is written
\* null, a finite one as Number::toString writes it.
JSONstringifyValue(v) ==
  IF v.type = "string" THEN <<Quote>> \o escapeJson(v.text) \o <<Quote>>
  ELSE IF v.type = "number" /\ v.text = Infinity THEN Null
  ELSE v.text

\* The index of character c in text, 0 for none.
indexOfChar(text, c) ==
  IF \E i \in 1..Len(text) : text[i] = c
    THEN CHOOSE i \in 1..Len(text) : text[i] = c /\ \A j \in 1..(i - 1) : text[j] # c
    ELSE 0

\* The number that the text of a JSON number spells: digits, an optional
\* fraction and an optional exponent (the numbers here are not negative).
JSONparseNumber(text) ==
  LET ePos == indexOfChar(text, "e")
      mantissa == IF ePos = 0 THEN text ELSE SubSeq(text, 1, ePos - 1)
      expText == IF ePos = 0 THEN <<>> ELSE SubSeq(text, ePos + 1, Len(text))
      negative == expText # <<>> /\ expText[1] = "-"
      expDigits == IF expText # <<>> /\ expText[1] \in {"+", "-"}
                     THEN Tail(expText) ELSE expText
      exp == IF negative THEN -limbOfDigits(expDigits) ELSE limbOfDigits(expDigits)
      dot == indexOfChar(mantissa, ".")
      whole == IF dot = 0 THEN mantissa ELSE SubSeq(mantissa, 1, dot - 1)
      frac == IF dot = 0 THEN <<>> ELSE SubSeq(mantissa, dot + 1, Len(mantissa))
  IN numberText(whole, frac, exp)

\* JSON.parse of the text of one value.
JSONparseValue(text) ==
  IF text = Null THEN JsValue("null", Null)
  ELSE IF text \in {True, False} THEN JsValue("boolean", text)
  ELSE IF text[1] = Quote
    THEN JsValue("string", unescapeJson(SubSeq(text, 2, Len(text) - 1)))
  ELSE IF text[1] \in {"[", "{"} THEN JSONparseText(text)
  ELSE JsValue("number", JSONparseNumber(text))

\* Object.fromEntries(Object.entries(tc.arguments).map(([k, v]) => [k, coerceArg(v)])).
coerceArguments(arguments) == [k \in DOMAIN arguments |-> coerceArg(arguments[k])]

\* JSON.stringify of the map: the text of each value by key.
JSONstringifyArguments(map) ==
  [k \in DOMAIN map |-> The({JSONstringifyValue(v) : v \in {map[k]}})]

\* args = JSON.parse(tc.function.arguments || "{}").
JSONparseArguments(text) == [k \in DOMAIN text |-> JSONparseValue(text[k])]

\* n times the digit c.
Repeated(c, n) == [i \in 1..n |-> c]

\* Integers above and just below the greatest double, integers that no
\* double holds, one that is written with an exponent, and fractions that
\* are not doubles.
HugeDigits == Repeated("9", MaxMagnitude)
LargeDigits == Repeated("1", MaxMagnitude)
RoundedDigits == Repeated("9", 16)
ExponentDigits == <<"1">> \o Repeated("0", MaxPlainMagnitude)
TinyFloat == <<"0", ".">> \o Repeated("0", 400) \o <<"1">>
NearOneFloat == <<"0", ".">> \o Repeated("9", 20)

XmlValues ==
  { True, False, <<"5">>, <<"0", "5">>, HugeDigits, LargeDigits, RoundedDigits,
    ExponentDigits, <<"1", ".", "5">>, <<"1", ".", "5", "0">>, TinyFloat,
    NearOneFloat, <<"0", ".", "1">>, <<"1", ".">>, <<"[", "1", "]">>,
    <<"[", Space, "1", "]">>, <<"[", "1">>, <<"{", "}">>, <<"a">>,
    <<Quote, "a", Backslash>>, <<>> }

ParamNames == {"path", "n"}

InitCoerce ==
  /\ Idle
  /\ fnArgs \in UNION {[K -> XmlValues] : K \in SUBSET ParamNames}
  /\ fnResult = <<>>

\* sendMessage, the XML branch: the arguments string of the call.
EncodeArguments ==
  /\ fnResult = <<>>
  /\ fnResult' =
       LET coerced == coerceArguments(fnArgs)
       IN <<[coerced |-> coerced, arguments |-> JSONstringifyArguments(coerced)]>>
  /\ UNCHANGED <<idleVars, fnArgs>>

\* sendMessage, before executeTool: the arguments decoded.
DecodeArguments ==
  /\ Len(fnResult) = 1
  /\ fnResult' =
       Append(fnResult, [args |-> JSONparseArguments(fnResult[1].arguments)])
  /\ UNCHANGED <<idleVars, fnArgs>>

NextCoerce == EncodeArguments \/ DecodeArguments

SpecCoerce == InitCoerce /\ [][NextCoerce]_vars

(***************************************************************************)
(* streamChat (core/api.ts) called directly on one stream: the chunks are  *)
(* handled in the order sent, then the function returns.                   *)
(***************************************************************************)
DeltaCalls ==
  [index : {0, 1}, id : {"", "call_1", "call_2"},
   name : {"", "read_file", "glob"}, arguments : {"", "{", "}"}]

StreamDeltas ==
  {[content |-> c, tool_calls |-> <<>>] : c \in {<<>>, <<"x">>, <<"y">>}} \cup
  {[content |-> <<>>, tool_calls |-> <<tc>>] : tc \in DeltaCalls}

InitDelta ==
  /\ Idle
  /\ fnArgs \in SeqsUpTo(StreamDeltas, MaxDeltas)
  /\ fnResult = <<[handled |-> 0, content |-> <<>>, toolCallsMap |-> <<>>,
                   returned |-> FALSE, toolCalls |-> <<>>]>>

\* One pass of the loop over the stream.
HandleDelta ==
  LET st == fnResult[1]
      delta == fnArgs[st.handled + 1]
  IN /\ ~st.returned
     /\ st.handled < Len(fnArgs)
     /\ fnResult' =
          <<[st EXCEPT !.handled = @ + 1,
                       !.content = appendContent(@, delta.content),
                       !.toolCallsMap = applyToolCallDeltas(@, delta.tool_calls)]>>
     /\ UNCHANGED <<idleVars, fnArgs>>

\* The end of the stream: toolCalls = Array.from(toolCallsMap.values()).
StreamChatReturns ==
  LET st == fnResult[1]
  IN /\ ~st.returned
     /\ st.handled = Len(fnArgs)
     /\ fnResult' = <<[st EXCEPT !.returned = TRUE,
                                 !.toolCalls = toolCallsOf(st.toolCallsMap)]>>
     /\ UNCHANGED <<idleVars, fnArgs>>

NextDelta == HandleDelta \/ StreamChatReturns

SpecDelta == InitDelta /\ [][NextDelta]_vars

(***************************************************************************)
(* The finalization of one round (useChat.sendMessage, from the return of  *)
(* streamChat to the persisted assistant message) on every result of a     *)
(* stream: the raw buffer, the accumulated tool calls, the error of the    *)
(* chunk loop, the number of chunks and the finish reason.                 *)
(***************************************************************************)
MaxBufferLen == 2

RawBuffers == SeqsUpTo(RawTokens, MaxBufferLen) \cup ContentChunks

ToolCallsMaps == {<<>>} \cup {applyToolCallDelta(<<>>, d) : d \in ToolCallDeltas}

\* What a stream can return: 0 chunks leave everything empty, and the
\* finish reason comes in a chunk.
StreamResults ==
  {r \in [rawBuffer : RawBuffers, toolCallsMap : ToolCallsMaps,
          err : {"", ApiError, TransportError}, chunkCount : {0, 1},
          finishReason : FinishReasons] :
     r.chunkCount = 0 =>
       r.rawBuffer = <<>> /\ r.toolCallsMap = <<>> /\ r.finishReason = NoFinishReason}

InitRound ==
  /\ Idle
  /\ fnArgs \in StreamResults
  /\ fnResult = <<>>

\* The assistant message of the round is built and persisted.
FinalizeRound ==
  LET streamErrorMsg ==
        streamErrorAtEnd(fnArgs.chunkCount, fnArgs.rawBuffer, fnArgs.toolCallsMap,
                         fnArgs.err)
      structured == toolCallsOf(fnArgs.toolCallsMap)
      parsed == parseModelOutput(fnArgs.rawBuffer)
      final == finalToolCallsOf(structured, parsed.toolCalls,
                                [k \in 1..Len(parsed.toolCalls) |-> clock])
      finalContent ==
        finalContentOf(parsed.content, streamErrorMsg, final, fnArgs.rawBuffer,
                       fnArgs.finishReason)
  IN /\ fnResult = <<>>
     /\ fnResult' =
          <<[parsedContent |-> parsed.content, streamErrorMsg |-> streamErrorMsg,
             finalToolCalls |-> final,
             saved |-> persistedTable(messages, sessionRef, "assistant",
                                      finalContent, toolCallsOrNull(final),
                                      NoId, "")]>>
     /\ UNCHANGED <<idleVars, fnArgs>>

NextRound == FinalizeRound

SpecRound == InitRound /\ [][NextRound]_vars

(***************************************************************************)
(* Properties.                                                             *)
(***************************************************************************)
MutatingTools == {"write_file", "edit_file", "bash"}

Active(t) == turns[t].pc \in {"stream", "exec", "capped"}
NoTurnActive == \A t \in Turns : ~Active(t)

SessionIds == 1..Len(sessions)

\* The tool calls recorded in a row of the message table.
RowCalls(row) == loadedToolCalls(row.tool_calls)

IsAssistant(row) == row.role = "assistant"
IsToolRow(row) == row.role = "tool"
IsEnd(e) == e.ev = "end"

IdsOf(calls) == [k \in 1..Len(calls) |-> calls[k].id]
ResultIdsOf(rows) == [k \in 1..Len(rows) |-> rows[k].tool_call_id]

\* The index of the first assistant row after row i of transcript tr, or
\* Len(tr) + 1.
NextAssistant(tr, i) ==
  IF \E j \in (i + 1)..Len(tr) : IsAssistant(tr[j])
    THEN CHOOSE j \in (i + 1)..Len(tr) :
           IsAssistant(tr[j]) /\ \A m \in (i + 1)..(j - 1) : ~IsAssistant(tr[m])
    ELSE Len(tr) + 1

ResultsAfter(tr, i) ==
  ResultIdsOf(SelectSeq(SubSeq(tr, i + 1, NextAssistant(tr, i) - 1), IsToolRow))

\* C1: after every turn, in the persisted transcript of every session, each
\* assistant message that carries tool calls is followed, before the next
\* assistant message, by one tool result for each of its tool-call ids, in
\* the original order.
C1_ToolCallsAnswered ==
  NoTurnActive =>
    \A sid \in SessionIds :
      LET tr == getSessionMessages(messages, sid)
      IN \A i \in 1..Len(tr) :
           IsAssistant(tr[i]) /\ RowCalls(tr[i]) # <<>> =>
             ResultsAfter(tr, i) = IdsOf(RowCalls(tr[i]))

\* C2: in every state, each persisted tool result with tool_call_id X is
\* preceded in the transcript of its session by an assistant message whose
\* tool calls contain id X.
C2_ResultHasCall ==
  \A sid \in SessionIds :
    LET tr == getSessionMessages(messages, sid)
    IN \A i \in 1..Len(tr) :
         IsToolRow(tr[i]) =>
           \E j \in 1..(i - 1) :
             /\ IsAssistant(tr[j])
             /\ \E k \in 1..Len(RowCalls(tr[j])) :
                  RowCalls(tr[j])[k].id = tr[i].tool_call_id

\* C3: when the user has cancelled while the stream of a round is being
\* read, the round is finalized and the turn ends: no tool call of the round
\* is executed and no further round is started.
C3_CancelMidStreamEndsTurn ==
  [][\A t \in Turns :
       turns[t].pc = "stream" /\ turns[t].aborted =>
         turns'[t] = turns[t] \/ turns'[t].pc = "done"]_vars

\* C4: when the mode of the turn is PLAN and a finalized tool call names a
\* mutating built-in tool, the call is refused: no tool function is invoked
\* for it and its result is the PLAN refusal text.
C4_PlanDeniesMutating ==
  \A n \in 1..Len(execLog) :
    LET e == execLog[n]
    IN e.ev = "start" /\ turns[e.turn].mode = "PLAN" /\ e.name \in MutatingTools
         => e.invoked = ""

\* C5: executeTool called with mode PLAN and a name that is neither
\* read-only nor prefixed mcp__ returns the refusal text as an ordinary
\* result, without looking up or invoking any tool function.
C5_PlanRefusalIsAResult ==
  teResult # NoResult /\ teCall.mode = "PLAN"
    /\ teCall.name \notin READ_ONLY_TOOLS /\ ~startsWithMcp(teCall.name)
    => /\ teResult.outcome = "return"
       /\ teResult.text = PlanDenied
       /\ ~teResult.lookup
       /\ teResult.invoked = ""

\* C5 witness: a refused call of a mutating tool whose function would throw.
C5_Witness ==
  /\ teCall = [name |-> "write_file", mode |-> "PLAN", behav |-> "throw"]
  /\ teResult.text = PlanDenied

\* C6: every round started while the mode is PLAN (and the UI shows PLAN)
\* sends a tool schema list in which every name is a read-only tool.
C6_PlanRoundSendsReadOnly ==
  [][\A t \in Turns :
       turns'[t].round = turns[t].round + 1 /\ mode = "PLAN" /\ rMode = "PLAN"
         => SeqRange(turns'[t].tools) \subseteq READ_ONLY_TOOLS]_vars

\* The events of round r of turn t, in order.
RoundEvents(t, r) ==
  LET mine(e) == e.turn = t /\ e.round = r IN SelectSeq(execLog, mine)

\* Within a round: start 1, end 1, start 2, end 2, ...
Alternates(ev) ==
  \A j \in 1..Len(ev) :
    /\ ev[j].k = (j + 1) \div 2
    /\ ev[j].ev = IF j % 2 = 1 THEN "start" ELSE "end"

C7_Sequential ==
  /\ \A t \in Turns : \A r \in 1..MaxRounds : Alternates(RoundEvents(t, r))
  /\ \A t \in Turns :
       turns[t].pc \in {"exec", "capped"} =>
         LET ev == RoundEvents(t, turns[t].round)
         IN /\ \A j \in 1..Len(ev) :
                 /\ ev[j].k <= Len(turns[t].finalToolCalls)
                 /\ ev[j].id = turns[t].finalToolCalls[ev[j].k].id
            /\ turns[t].pc = "exec" =>
                 /\ Len(ev) = 2 * turns[t].idx - 1
                 /\ ev[Len(ev)].ev = "start"

\* A step that settles a call appends its result to the history.
C7_ResultInHistory ==
  (Len(execLog') > Len(execLog) /\ execLog'[Len(execLog) + 1].ev = "end")
    => /\ Len(historyRef') = Len(historyRef) + 1
       /\ historyRef'[Len(historyRef')].role = "tool"
       /\ historyRef'[Len(historyRef')].tool_call_id =
            execLog'[Len(execLog) + 1].id

\* The step that starts call k + 1 of a round is the step that settles call
\* k: it has appended the result of call k to the history and to the
\* message table.
C7_ResultAppended ==
  \A t \in Turns :
    (/\ turns[t].pc = "exec" /\ turns'[t].pc = "exec"
     /\ turns'[t].round = turns[t].round
     /\ turns'[t].idx # turns[t].idx)
      => LET done == turns[t].finalToolCalls[turns[t].idx].id
         IN /\ turns'[t].idx = turns[t].idx + 1
            /\ Len(execLog') = Len(execLog) + 2
            /\ execLog'[Len(execLog) + 1].ev = "end"
            /\ execLog'[Len(execLog) + 1].id = done
            /\ execLog'[Len(execLog) + 2].ev = "start"
            /\ execLog'[Len(execLog) + 2].k = turns'[t].idx
            /\ Len(historyRef') = Len(historyRef) + 1
            /\ historyRef'[Len(historyRef')].role = "tool"
            /\ historyRef'[Len(historyRef')].tool_call_id = done
            /\ Len(messages') = Len(messages) + 1
            /\ messages'[Len(messages')].role = "tool"
            /\ messages'[Len(messages')].tool_call_id = done

\* C7: within a turn the tool calls of a round run one at a time, in the
\* order of the finalized tool-call list, and call k+1 starts only after the
\* result of call k has been appended to the history and persisted.
C7_ToolsRunInOrder ==
  []C7_Sequential /\ [][C7_ResultInHistory]_vars /\ [][C7_ResultAppended]_vars

\* C7 witness: the second call of a round is running, the first has settled.
C7_Witness ==
  \E t \in Turns :
    /\ turns[t].pc = "exec"
    /\ turns[t].idx = 2
    /\ turns[t].finalToolCalls[1].id # turns[t].finalToolCalls[2].id

\* C8: at most one user turn is in progress at any time.
C8_OneTurnAtATime == Cardinality({t \in Turns : Active(t)}) <= 1

IsXmlCall(c) == c.id.src = "xml_tc"

\* C9: the structured tool calls of the stream win: the XML calls parsed
\* from the content are the finalized list only when the stream delivered no
\* structured call, and otherwise no XML call is recorded or executed.
C9_StructuredWins ==
  \A t \in Turns :
    turns[t].pc \in {"exec", "capped", "done"} =>
      LET structured == toolCallsOf(turns[t].toolCallsMap)
          xml == parseModelOutput(turns[t].rawBuffer).toolCalls
          final == turns[t].finalToolCalls
          ev == RoundEvents(t, turns[t].round)
      IN /\ structured # <<>> =>
              /\ final = structured
              /\ \A k \in 1..Len(final) : ~IsXmlCall(final[k])
              /\ \A j \in 1..Len(ev) : ev[j].id.src # "xml_tc"
         /\ structured = <<>> =>
              /\ Len(final) = Len(xml)
              /\ \A k \in 1..Len(final) :
                   IsXmlCall(final[k]) /\ final[k].name = xml[k].name

\* C9 witness: a round whose stream delivered a structured call and whose
\* content holds an XML call is running its tool calls.
C9_Witness ==
  \E t \in Turns :
    /\ turns[t].pc = "exec"
    /\ turns[t].toolCallsMap # <<>>
    /\ parseModelOutput(turns[t].rawBuffer).toolCalls # <<>>

\* C10: once the user has cancelled during a turn, while its stream is being
\* read or while one of its tools is executing, no further stream is started
\* in that turn.
C10_CancelStopsTurn ==
  [][\A t \in Turns :
       turns[t].aborted => turns'[t].round = turns[t].round]_vars

\* The content tags of an assistant text that carries a terminal error.
ErrorTags == {"error_only", "error_suffix"}

\* The step in which turn t completes appends an assistant row that has no
\* tool calls or carries an error text, and resets isLoading.
C11_CompletionStep ==
  \A t \in Turns :
    turns[t].pc # "done" /\ turns'[t].pc = "done" =>
      /\ ~isLoading'
      /\ Len(messages') = Len(messages) + 1
      /\ IsAssistant(messages'[Len(messages')])
      /\ \/ RowCalls(messages'[Len(messages')]) = <<>>
         \/ messages'[Len(messages')].content.tag \in ErrorTags

\* A completed turn takes no further step.
C11_CompletedStays ==
  \A t \in Turns : turns[t].pc = "done" => turns'[t] = turns[t]

\* C11: whenever a turn has completed, the last message persisted for that
\* turn is an assistant message with zero tool calls, or an assistant message
\* that carries a terminal error text.
C11_TurnEndsOnAssistant ==
  [][C11_CompletionStep]_vars /\ [][C11_CompletedStays]_vars

\* C11 witness: a turn has completed in its second round, after its tools
\* ran, and the last row of the table is its closing assistant message.
C11_Witness ==
  \E t \in Turns :
    /\ turns[t].pc = "done"
    /\ turns[t].round = 2
    /\ ~isLoading
    /\ IsAssistant(messages[Len(messages)])
    /\ RowCalls(messages[Len(messages)]) = <<>>
    /\ Len(SelectSeq(messages, IsToolRow)) > 0

\* C12: at the start of every round the message list sent to the server is
\* one system message followed by the messages persisted for the current
\* session, equal message by message in role, content, tool_calls and
\* tool_call_id.
C12_HistoryEqualsPersisted ==
  [][\A t \in Turns :
       turns'[t].round = turns[t].round + 1 =>
         /\ turns'[t].fullHistory # <<>>
         /\ turns'[t].fullHistory[1].role = "system"
         /\ Tail(turns'[t].fullHistory) = loadSession(messages', sessionRef')]_vars

\* The ids of the tool calls recorded in a list of rows, in order.
RECURSIVE CallIdsOf(_)
CallIdsOf(rows) ==
  IF rows = <<>> THEN <<>>
  ELSE IdsOf(RowCalls(Head(rows))) \o CallIdsOf(Tail(rows))

NoRepeat(ids) ==
  \A i \in 1..Len(ids) : \A j \in 1..Len(ids) : i # j => ids[i] # ids[j]

\* C13: a tool-call id never repeats within a session: no two tool calls
\* recorded in assistant messages of the same session share an id, whether
\* the id came from the stream or was synthesized as xml_tc_<ts>_<i>.
C13_IdsUniqueInSession ==
  \A sid \in SessionIds :
    NoRepeat(CallIdsOf(SelectSeq(getSessionMessages(messages, sid), IsAssistant)))

\* C14: within each session the ids of the persisted messages are strictly
\* increasing in append order and dense (consecutive messages of the session
\* have consecutive ids), and reading a session returns its messages in
\* ascending id order.
C14_IdsDensePerSession ==
  \A sid \in SessionIds :
    LET ids == getSessionMessageIds(messages, sid)
    IN /\ Len(ids) = Len(getSessionMessages(messages, sid))
       /\ \A k \in 1..(Len(ids) - 1) :
            /\ ids[k] < ids[k + 1]
            /\ ids[k + 1] = ids[k] + 1

\* The stream of turn t returns in this step.
StreamReturns(t) == turns[t].pc = "stream" /\ turns'[t].pc # "stream"

IsOnError(e) == e.cb = "onError"

\* C15: every run of streamChat ends with exactly one terminal event, either
\* Done or Error, never both and never an Error twice, and no chunk callback
\* follows the terminal event: the callbacks emitted from the first terminal
\* event to the return are that one event.
C15_OneTerminalEvent ==
  \A t \in Turns : turns[t].ending # <<>> => Len(turns[t].ending) = 1

\* C16: a stream that ends with zero chunks, an empty content buffer and an
\* empty tool-call map reports the empty-response error before Done; the
\* round is finalized as an error, no tool is executed and no further round
\* is started.
C16_EmptyResponseIsAnError ==
  [][\A t \in Turns :
       (/\ StreamReturns(t)
        /\ turns'[t].chunkCount = 0
        /\ turns'[t].rawBuffer = <<>>
        /\ turns'[t].toolCallsMap = <<>>)
       => /\ \E i \in 1..Len(turns'[t].ending) :
               /\ turns'[t].ending[i] = OnError(EmptyResponse)
               /\ \E j \in (i + 1)..Len(turns'[t].ending) :
                    turns'[t].ending[j] = OnDone
          /\ Len(messages') = Len(messages) + 1
          /\ IsAssistant(messages'[Len(messages')])
          /\ messages'[Len(messages')].content =
               Content(<<>>, "error_only", EmptyResponse)
          /\ RowCalls(messages'[Len(messages')]) = <<>>
          /\ turns'[t].pc = "done"
          /\ turns'[t].round = turns[t].round
          /\ execLog' = execLog]_vars

\* C16 witness: a turn has ended on a stream without chunks, and the last
\* persisted row is the empty-response error.
C16_Witness ==
  \E t \in Turns :
    /\ turns[t].pc = "done"
    /\ turns[t].chunkCount = 0
    /\ turns[t].ending = <<OnError(EmptyResponse), OnDone>>
    /\ messages[Len(messages)].content = Content(<<>>, "error_only", EmptyResponse)

\* C19: if the stream of a round reports an error, the text of that error is
\* in the persisted assistant message of the round, no tool call of the round
\* is executed and the loop exits without another round.
C19_StreamErrorSurfaced ==
  [][\A t \in Turns :
       StreamReturns(t) =>
         \A i \in 1..Len(turns'[t].ending) :
           IsOnError(turns'[t].ending[i]) =>
             /\ Len(messages') = Len(messages) + 1
             /\ IsAssistant(messages'[Len(messages')])
             /\ messages'[Len(messages')].content.tag \in ErrorTags
             /\ messages'[Len(messages')].content.msg = turns'[t].ending[i].msg
             /\ turns'[t].pc = "done"
             /\ turns'[t].round = turns[t].round
             /\ execLog' = execLog]_vars

\* The texts that begin with "Error:".
BeginsWithError(text) == text \in ErrorTexts

\* The step on which a raising call settles: the loop records for that call
\* a tool result whose text begins with "Error:" and the exception does not
\* leave the loop: the next call of the round is started, or after the last
\* call the next round (unless the model's round budget is used up).
C17_ToolExceptionIsAResult ==
  [][(/\ Len(execLog') > Len(execLog)
      /\ execLog'[Len(execLog) + 1].ev = "end"
      /\ execLog'[Len(execLog) + 1].outcome = "throw")
     => LET e == execLog'[Len(execLog) + 1]
            t == e.turn
            n == Len(turns[t].finalToolCalls)
        IN /\ IsToolRow(messages'[Len(messages')])
           /\ messages'[Len(messages')].tool_call_id = e.id
           /\ BeginsWithError(messages'[Len(messages')].content.msg)
           /\ historyRef'[Len(historyRef')].content = messages'[Len(messages')].content
           /\ IF e.k < n
                THEN /\ turns'[t].pc = "exec"
                     /\ turns'[t].idx = e.k + 1
                     /\ execLog'[Len(execLog')].ev = "start"
                     /\ execLog'[Len(execLog')].id = turns[t].finalToolCalls[e.k + 1].id
                ELSE \/ turns'[t].pc = "stream" /\ turns'[t].round = turns[t].round + 1
                     \/ roundsLeft = 0 /\ turns'[t].pc = "capped"]_vars

\* A call of the current round of turn t has raised.
RaisedInRound(t) ==
  \E i \in 1..Len(execLog) :
    /\ execLog[i].turn = t
    /\ execLog[i].round = turns[t].round
    /\ execLog[i].ev = "end"
    /\ execLog[i].outcome = "throw"

\* After call k of turn t the loop goes on: call k + 1 of the round is
\* started, or after the last call the next round (unless the model's round
\* budget is used up).
LoopGoesOn(t, k) ==
  IF k < Len(turns[t].finalToolCalls)
    THEN /\ turns'[t].pc = "exec"
         /\ turns'[t].idx = k + 1
         /\ execLog'[Len(execLog')].ev = "start"
         /\ execLog'[Len(execLog')].id = turns[t].finalToolCalls[k + 1].id
    ELSE \/ turns'[t].pc = "stream" /\ turns'[t].round = turns[t].round + 1
         \/ roundsLeft = 0 /\ turns'[t].pc = "capped"

\* C17: if a tool invocation raises, the loop records for that call a tool
\* result whose text begins with "Error:"; the exception does not leave the
\* loop, the remaining calls of the round are still executed in order, and
\* the loop continues with the next round: on every step on which a call
\* settles in a round in which a call has raised (that call itself
\* included), the next call of the round is started, or after the last call
\* the next round.
C17_RaisedCallLetsRoundGoOn ==
  [][(/\ Len(execLog') > Len(execLog)
      /\ execLog'[Len(execLog) + 1].ev = "end")
     => LET e == execLog'[Len(execLog) + 1]
            t == e.turn
        IN (e.outcome = "throw" \/ RaisedInRound(t)) =>
             /\ e.outcome = "throw" =>
                  /\ IsToolRow(messages'[Len(messages')])
                  /\ messages'[Len(messages')].tool_call_id = e.id
                  /\ BeginsWithError(messages'[Len(messages')].content.msg)
             /\ LoopGoesOn(t, e.k)]_vars

\* The first call of a round has raised, its error result is persisted, and
\* the second call of the round is running.
RaisedCallRecorded ==
  \E n \in 1..(Len(execLog) - 1) :
    /\ execLog[n].ev = "end"
    /\ execLog[n].outcome = "throw"
    /\ execLog[n].k = 1
    /\ execLog[n + 1].ev = "start"
    /\ execLog[n + 1].k = 2
    /\ execLog[n + 1].turn = execLog[n].turn
    /\ \E m \in 1..Len(messages) :
         /\ IsToolRow(messages[m])
         /\ messages[m].tool_call_id = execLog[n].id
         /\ messages[m].content.msg = ToolThrown

\* The direct call: for every tool name that is neither a registered
\* built-in nor a tool of a connected bridge server (an mcp__ name of an
\* unknown or shut-down server included), executeTool returns, in every
\* mode, an error text that names the tool; it does not throw.
C18_UnknownToolIsAResult ==
  (/\ teResult # NoResult
   /\ teCall.name \notin TOOL_REGISTRY
   /\ teCall.name \notin McpConnected)
  => /\ teResult.outcome = "return"
     /\ BeginsWithError(teResult.text)
     /\ teResult.names = teCall.name
     /\ teResult.invoked \in {"", "callMCPTool"}

\* A call of a tool of a server that is not connected, whose bridge call
\* would throw, has returned the not-found text.
UnknownToolReturned ==
  /\ teCall.name = "mcp__gone__tool"
  /\ teCall.behav = "throw"
  /\ teResult.text = McpNotFound

\* The loop when the model calls tools that do not exist: a name that is
\* not registered, and a tool of a bridge server that is not connected.
UnknownToolDeltas ==
  { [index |-> 0, id |-> "call_1", name |-> "no_such_tool", arguments |-> "{}"],
    [index |-> 1, id |-> "call_2", name |-> "mcp__gone__tool", arguments |-> "{}"] }

NextUnknown ==
  \/ \E t \in Turns, input \in UserInputs : SendMessage(t, input)
  \/ \E t \in Turns, d \in UnknownToolDeltas : ToolCallDelta(t, d)
  \/ \E t \in Turns : StreamDone(t)
  \/ \E t \in Turns, b \in LoopBehaviours : ToolSettles(t, b)
  \/ Render

SpecUnknown == Init /\ [][NextUnknown]_vars

\* C18: for every tool name that is neither a registered built-in nor a tool
\* of a connected bridge server (an mcp__ name of an unknown or shut-down
\* server included), executeTool returns an error text that names the tool;
\* it never throws, and the loop continues: on the step on which such a call
\* of the loop settles, the call has returned, its result is in the history
\* with a text that begins with "Error:" and comes from a call that names
\* the tool, and the next call of the round is started, or after the last
\* call the next round.
C18_UnknownToolLetsLoopGoOn ==
  [][(/\ Len(execLog') > Len(execLog)
      /\ execLog'[Len(execLog) + 1].ev = "end"
      /\ execLog'[Len(execLog) + 1].name \notin TOOL_REGISTRY
      /\ execLog'[Len(execLog) + 1].name \notin McpConnected)
     => LET e == execLog'[Len(execLog) + 1]
            t == e.turn
        IN /\ e.outcome = "return"
           /\ \A b \in Behaviours :
                executeTool(e.name, LoopCallMode, b).names = e.name
           /\ historyRef'[Len(historyRef')].tool_call_id = e.id
           /\ BeginsWithError(historyRef'[Len(historyRef')].content.msg)
           /\ LoopGoesOn(t, e.k)]_vars

\* C20: the token counter is non-decreasing within a session: while the
\* current session stays the same, no step makes the cumulative token count
\* smaller.
C20_TokensMonotone ==
  [][sessionRef' = sessionRef => totalTokens' >= totalTokens]_vars

\* The notice the token effect sets when the limit is reached.
TokenLimitNotice == "Token limit reached. Starting new session..."

\* C21: when a render shows a cumulative token count of 200,000 or more, a
\* fresh session (new id, empty history, counter 0) becomes current and the
\* token-limit notice is visible once it is current; no user message is
\* accepted while the count is at the limit.
C21_TokenLimitStartsSession ==
  [][/\ (rTokens' # rTokens /\ rTokens' >= TOKEN_LIMIT)
        => /\ sessionRef' # sessionRef
           /\ sessionRef' = Len(sessions')
           /\ Len(sessions') = Len(sessions) + 1
           /\ historyRef' = <<>>
           /\ totalTokens' = 0
           /\ systemMessage' = TokenLimitNotice
     /\ \A t \in Turns :
          turns[t].pc = "new" /\ turns'[t].pc # "new" => totalTokens < TOKEN_LIMIT]_vars

IsUserRow(row) == row.role = "user"

\* C22: for every session, freshly created or loaded from the store with the
\* default name, the first user message persisted to it renames the session
\* to the (truncated, newline-free) text of that message, and no later
\* message changes the name: a session that holds a user message is named
\* after its first user message.
C22_FirstMessageNamesSession ==
  \A sid \in SessionIds :
    LET users == SelectSeq(getSessionMessages(messages, sid), IsUserRow)
    IN users # <<>> => sessions[sid] = autoName(users[1].content.body)

\* C23: round trip through the store: when a finalized assistant message is
\* saved and the session is reloaded with loadSession, the reloaded tool-calls
\* list equals the finalized list element by element in id, name and
\* arguments (and a message saved without tool calls reloads without any).
C23_ToolCallsRoundTrip ==
  [][\A t \in Turns :
       StreamReturns(t) =>
         LET loaded == loadSession(messages', sessionRef)
         IN /\ loaded # <<>>
            /\ loaded[Len(loaded)].role = "assistant"
            /\ loaded[Len(loaded)].tool_calls = turns'[t].finalToolCalls]_vars

\* C23 witness: a round was finalized with two calls recovered from the
\* text, whose arguments hold quotes; the stored text writes the quotes with
\* escapes, and it reloads to the same two calls.
C23_Witness ==
  \E t \in Turns :
    /\ turns[t].pc = "exec"
    /\ turns[t].idx = 1
    /\ Len(turns[t].finalToolCalls) = 2
    /\ \A k \in 1..2 : Quote \in SeqRange(turns[t].finalToolCalls[k].arguments)
    /\ \E m \in 1..Len(messages) :
         /\ ~messages[m].tool_calls.null
         /\ Backslash \in SeqRange(messages[m].tool_calls.text)
         /\ RowCalls(messages[m]) = turns[t].finalToolCalls

\* Session sid is deleted in this step.
DeletedInStep(sid) ==
  sessions[sid] # DeletedSession /\ sessions'[sid] = DeletedSession

\* C24: the store is append-only except for session deletion: deleting a
\* session removes that session and every message of it and leaves all other
\* sessions and messages unchanged, and no other operation removes or alters
\* a persisted message.
C24_AppendOnlyButDelete ==
  [][/\ Len(messages') >= Len(messages)
     /\ Len(sessions') >= Len(sessions)
     /\ \A k \in 1..Len(messages) :
          IF messages[k].session_id # NoSession /\ DeletedInStep(messages[k].session_id)
            THEN messages'[k] = DeletedMessage
            ELSE messages'[k] = messages[k]
     /\ \A sid \in 1..Len(sessions) :
          DeletedInStep(sid) =>
            /\ Len(messages') = Len(messages)
            /\ Len(sessions') = Len(sessions)
            /\ getSessionMessages(messages', sid) = <<>>
            /\ \A other \in 1..Len(sessions) :
                 other # sid => sessions'[other] = sessions[other]]_vars

\* C24 witness: one session has been deleted with its messages, and another
\* session still holds the message saved to it before the deletion.
C24_Witness ==
  \E sid \in SessionIds : \E other \in SessionIds :
    /\ sessions[sid] = DeletedSession
    /\ sessions[other] # DeletedSession
    /\ \E k \in 1..Len(messages) : messages[k] = DeletedMessage
    /\ \E k \in 1..(Len(messages) - 1) :
         messages[k].session_id = other /\ messages[k + 1] = DeletedMessage

\* The parse of the whole raw buffer, once the stream has delivered it.
WholeParsed == Len(fnResult) > Len(fnArgs)
ParsedWhole == fnResult[Len(fnArgs) + 1]

\* C25: for every raw buffer, the content that parseModelOutput returns
\* holds neither <think> nor <minimax:tool_call>, and parsing that content
\* again returns the same content.
C25_ParserIdempotent ==
  Len(fnResult) = Len(fnArgs) + 2 =>
    /\ ~Has(ParsedWhole.content, ThinkOpen)
    /\ ~Has(ParsedWhole.content, ToolOpen)
    /\ fnResult[Len(fnArgs) + 2].content = ParsedWhole.content

IsPrefix(p, w) == Len(p) <= Len(w) /\ SubSeq(w, 1, Len(p)) = p

\* C26: for every raw buffer and every prefix of it, the parse of the prefix
\* is flagged pending or its content is a prefix of the content of the
\* whole buffer.
C26_PreviewIsPrefix ==
  WholeParsed =>
    \A k \in 1..(Len(fnArgs) + 1) :
      fnResult[k].pending \/ IsPrefix(fnResult[k].content, ParsedWhole.content)

\* The number of places of content at which old occurs.
OccursAt(content, old) ==
  {i \in 0..(Len(content) - Len(old)) : SubSeq(content, i + 1, i + Len(old)) = old}

EditErrors == {FileNotFound, OldStrNotFound, OldStrNotUnique}

\* The calls of edit_file that have returned, and a call made while no
\* other call on the file is in flight.
EditReturned(k) == k \in 1..Len(fnArgs.calls) /\ fnResult.calls[k].pc = "returned"
EditAlone == Len(fnArgs.calls) = 1

\* C27: edit_file fails unless old_str occurs exactly once in the file: for
\* every content and every old_str, the empty string and the empty file
\* included, an old_str that does not occur exactly once gets an error text,
\* which names the number of occurrences when there are several, and the
\* file is left as it was.
C27_EditNeedsOneOccurrence ==
  (EditAlone /\ EditReturned(1) /\ fnArgs.file.exists) =>
    LET n == Cardinality(OccursAt(fnArgs.file.content, fnArgs.calls[1].old_str))
    IN n # 1 =>
         /\ fnResult.calls[1].text \in EditErrors
         /\ fnResult.file = fnArgs.file
         /\ n > 1 => /\ fnResult.calls[1].text = OldStrNotUnique
                     /\ fnResult.calls[1].times = n

\* The content with the occurrence of old at place q replaced by new.
Spliced(content, q, old, new) ==
  SubSeq(content, 1, q) \o new \o SubSeq(content, q + Len(old) + 1, Len(content))

\* C38: when edit_file succeeds on an old_str that occurs exactly once, the
\* new content is the old content with that occurrence replaced by new_str
\* taken literally, character for character, "$" sequences included, and
\* everything before and after the occurrence is unchanged.
C38_NewStrTakenLiterally ==
  (EditAlone /\ EditReturned(1) /\ fnArgs.file.exists
     /\ fnResult.calls[1].text = FileEdited) =>
    LET places == OccursAt(fnArgs.file.content, fnArgs.calls[1].old_str)
    IN Cardinality(places) = 1 =>
         \A q \in places :
           fnResult.file.content =
             Spliced(fnArgs.file.content, q, fnArgs.calls[1].old_str,
                     fnArgs.calls[1].new_str)

\* The same for every new_str without a "$".
C38_PlainNewStr ==
  (EditAlone /\ \A i \in 1..Len(fnArgs.calls[1].new_str) :
                  fnArgs.calls[1].new_str[i] # Dollar)
    => C38_NewStrTakenLiterally

\* The same for every new_str in which each "$" is followed by a character
\* other than "$", "&", the grave accent and the apostrophe (as in "$1").
C38_DigitNewStr ==
  (EditAlone /\ \A i \in 1..Len(fnArgs.calls[1].new_str) :
      fnArgs.calls[1].new_str[i] = Dollar =>
        i < Len(fnArgs.calls[1].new_str)
          /\ fnArgs.calls[1].new_str[i + 1] \in {"c", "1"})
    => C38_NewStrTakenLiterally

\* Each call that edits the file writes the content it read with its one
\* replacement made, whatever another call wrote in between: of two calls
\* that read the same content, the edit of the one that writes first is lost.
EditWritesWhatItRead ==
  \A k \in 1..Len(fnArgs.calls) :
    (EditReturned(k) /\ fnResult.calls[k].text = FileEdited) =>
      fnResult.calls[k].after.content =
        replaceFirst(fnResult.calls[k].content, fnArgs.calls[k].old_str,
                     fnArgs.calls[k].new_str)

\* Two calls in flight have both edited the file, and the file is what one
\* of them alone would have made of it.
EditLost ==
  /\ Len(fnArgs.calls) = 2
  /\ fnArgs.calls[1] # fnArgs.calls[2]
  /\ \A k \in 1..2 : EditReturned(k) /\ fnResult.calls[k].text = FileEdited
  /\ \E k \in 1..2 :
       fnResult.file.content =
         replaceFirst(fnArgs.file.content, fnArgs.calls[k].old_str,
                      fnArgs.calls[k].new_str)

\* C28: for every parameter map of an XML tool call, coercing each value,
\* encoding the map into the arguments string and decoding that string
\* before the tool runs gives an object equal to the coerced map, for
\* booleans, integers of any number of digits, floats, JSON arrays and
\* objects and plain strings.
C28_ArgumentsRoundTrip ==
  Len(fnResult) = 2 => fnResult[2].args = fnResult[1].coerced

\* The decoded value equals the coerced one for every value that is finite.
C28_FiniteRoundTrip ==
  Len(fnResult) = 2 =>
    \A k \in DOMAIN fnArgs :
      fnResult[1].coerced[k].text # Infinity =>
        fnResult[2].args[k] = fnResult[1].coerced[k]

EscWhenIdle(op) == op.key = "escape" /\ op.idle
EscInTurn(op) == op.key = "escape" /\ ~op.idle

\* C29: a cancel issued while no turn is in progress is a no-op: it changes
\* neither the history, the store, the token counter nor the loading flag,
\* and the stream of a later turn is aborted only by a cancel issued while a
\* turn is in progress.
C29_IdleCancelIsNoOp ==
  /\ [][Len(uiOps') > Len(uiOps) /\ EscWhenIdle(uiOps'[Len(uiOps')]) =>
          UNCHANGED <<historyRef, messages, sessions, sessionRef, totalTokens,
                      isLoading, abortRef, turns>>]_vars
  /\ [](\A t \in Turns :
          turns[t].aborted => \E k \in 1..Len(uiOps) : EscInTurn(uiOps[k]))

\* C29 witness: after a cancel with no turn in progress, a turn is streaming
\* and has received a chunk, its controller not aborted.
C29_Witness ==
  /\ \E k \in 1..Len(uiOps) : EscWhenIdle(uiOps[k])
  /\ \E t \in Turns :
       turns[t].pc = "stream" /\ turns[t].chunkCount > 0 /\ ~turns[t].aborted

\* The tool-call deltas of the stream, and its content deltas, in the order
\* of arrival.
RECURSIVE CallsSent(_)
CallsSent(deltas) ==
  IF deltas = <<>> THEN <<>> ELSE Head(deltas).tool_calls \o CallsSent(Tail(deltas))

RECURSIVE ContentSent(_)
ContentSent(deltas) ==
  IF deltas = <<>> THEN <<>> ELSE Head(deltas).content \o ContentSent(Tail(deltas))

\* The indexes of tcs in the order of their first arrival.
RECURSIVE FirstArrivals(_)
FirstArrivals(tcs) ==
  IF tcs = <<>> THEN <<>>
  ELSE LET before == FirstArrivals(SubSeq(tcs, 1, Len(tcs) - 1))
           idx == tcs[Len(tcs)].index
       IN IF \E k \in 1..Len(before) : before[k] = idx THEN before
          ELSE Append(before, idx)

\* The last element of strs that is not empty, "" if there is none.
LastNonEmpty(strs) ==
  LET ne == {k \in 1..Len(strs) : strs[k] # ""}
  IN IF ne = {} THEN "" ELSE strs[CHOOSE k \in ne : \A j \in ne : j <= k]

\* The fragments of strs that are not empty, in order: what concatenating
\* strs is made of.
Fragments(strs) == LET nonEmpty(x) == x # "" IN SelectSeq(strs, nonEmpty)

\* C30: for every sequence of tool_calls deltas of a stream, the list that
\* streamChat returns has one entry per distinct index, in the order of the
\* first arrival of the indexes; the arguments of an entry are the
\* concatenation, in arrival order, of the fragments received for its index,
\* and its id and name the last non-empty ones received for it.  The
\* content is the concatenation of the content deltas in order.
C30_DeltasAccumulate ==
  fnResult[1].returned =>
    LET tcs == CallsSent(fnArgs)
        order == FirstArrivals(tcs)
        got == fnResult[1].toolCalls
    IN /\ Len(got) = Len(order)
       /\ \A k \in 1..Len(order) :
            LET mine(tc) == tc.index = order[k]
                sent == SelectSeq(tcs, mine)
            IN /\ got[k].arguments = Fragments([j \in 1..Len(sent) |-> sent[j].arguments])
               /\ got[k].id = SrvId(LastNonEmpty([j \in 1..Len(sent) |-> sent[j].id]))
               /\ got[k].name = LastNonEmpty([j \in 1..Len(sent) |-> sent[j].name])
       /\ fnResult[1].content = ContentSent(fnArgs)

\* C30 witness: a stream has returned two calls, the second index first,
\* one of them built from two fragments of arguments and given two ids, the
\* later id kept.
C30_Witness ==
  /\ fnResult[1].returned
  /\ Len(fnResult[1].toolCalls) = 2
  /\ fnArgs[1].tool_calls # <<>> /\ fnArgs[1].tool_calls[1].index = 1
  /\ fnArgs[1].tool_calls[1].id = "call_1"
  /\ fnResult[1].toolCalls[1].arguments = <<"{", "}">>
  /\ fnResult[1].toolCalls[1].id = SrvId("call_2")

\* The arguments string of call k of turn t is not valid JSON.
BadArguments(t, k) ==
  argumentsString(turns[t].finalToolCalls[k].arguments) \notin JsonObjects

IsEvent(e, t, k, ev) ==
  e.turn = t /\ e.round = turns[t].round /\ e.k = k /\ e.ev = ev

\* C31: a finalized tool call whose arguments string is not valid JSON is
\* run with the empty object as arguments: the parse failure is not raised,
\* the call is not skipped and the round goes on to the next call; the turn
\* ends after the call only when its result could not be stored.
C31_BadArgumentsRunWithEmptyObject ==
  /\ [](\A t \in Turns :
          turns[t].pc = "exec" =>
            \A k \in 1..turns[t].idx :
              BadArguments(t, k) =>
                \E i \in 1..Len(execLog) :
                  /\ IsEvent(execLog[i], t, k, "start")
                  /\ execLog[i].args = EmptyObject
                  /\ execLog[i].name \in TOOL_REGISTRY =>
                       execLog[i].invoked = execLog[i].name)
  /\ [][\A t \in Turns :
          /\ turns[t].pc = "exec"
          /\ turns'[t].idx # turns[t].idx \/ turns'[t].pc # "exec"
          /\ BadArguments(t, turns[t].idx)
          => /\ \E i \in 1..Len(execLog') :
                  execLog'[i].turn = t /\ execLog'[i].round = turns[t].round
                  /\ execLog'[i].k = turns[t].idx /\ execLog'[i].ev = "end"
             /\ turns'[t].pc = "done" =>
                  persistThrows(sessionRef, historyRef'[Len(historyRef')].content)
             /\ (turns[t].idx < Len(turns[t].finalToolCalls) /\ turns'[t].pc # "done")
                  => turns'[t].pc = "exec" /\ turns'[t].idx = turns[t].idx + 1]_vars

\* C31 witness: a call whose arguments were cut off ("{") has been run with
\* the empty object and has returned.
C31_Witness ==
  \E t \in Turns : \E i \in 1..Len(execLog) :
    /\ execLog[i].turn = t /\ execLog[i].ev = "end"
    /\ execLog[i].args = EmptyObject
    /\ execLog[i].outcome = "return"
    /\ turns[t].round = execLog[i].round
    /\ turns[t].finalToolCalls # <<>>
    /\ \E k \in 1..Len(turns[t].finalToolCalls) :
         k = execLog[i].k /\ turns[t].finalToolCalls[k].arguments = <<"{">>

\* The places of raw at which an opening tag stands that no closing tag of
\* its kind follows.
UnclosedAt(raw, open, close) ==
  {i \in 1..Len(raw) :
     raw[i] = open /\ \A j \in (i + 1)..Len(raw) : raw[j] # close}

IsSuffix(p, w) == Len(p) <= Len(w) /\ SubSeq(w, Len(w) - Len(p) + 1, Len(w)) = p

\* C32: for every raw buffer in which a <think> or <minimax:tool_call> has no
\* closing tag after it, also when an earlier block of the kind was closed,
\* parseModelOutput returns pending = true and a content with nothing of
\* what follows the unclosed tag; what follows an unclosed <think> is
\* returned as reasoning.
C32_UnclosedTagIsPending ==
  WholeParsed =>
    /\ \A i \in UnclosedAt(fnArgs, ThinkOpen, ThinkClose) :
         /\ ParsedWhole.pending
         /\ ~Has(ParsedWhole.content, ThinkOpen)
         /\ Len(ParsedWhole.content) < i
         /\ IsSuffix(trim(SubSeq(fnArgs, i + 1, Len(fnArgs))), ParsedWhole.reasoning)
    /\ \A i \in UnclosedAt(fnArgs, ToolOpen, ToolClose) :
         /\ ParsedWhole.pending
         /\ ~Has(ParsedWhole.content, ToolOpen)
         /\ Len(ParsedWhole.content) < i

\* The same for the buffers that hold no closing tag of the kind at all.
C32_NoCloseAtAll ==
  WholeParsed =>
    /\ ~Has(fnArgs, ThinkClose) =>
         \A i \in UnclosedAt(fnArgs, ThinkOpen, ThinkClose) :
           /\ ParsedWhole.pending
           /\ ~Has(ParsedWhole.content, ThinkOpen)
           /\ Len(ParsedWhole.content) < i
    /\ ~Has(fnArgs, ToolClose) =>
         \A i \in UnclosedAt(fnArgs, ToolOpen, ToolClose) :
           /\ ParsedWhole.pending
           /\ ~Has(ParsedWhole.content, ToolOpen)
           /\ Len(ParsedWhole.content) < i

\* The number of places of w at which tok stands.
CountOf(w, tok) == Cardinality({i \in 1..Len(w) : w[i] = tok})

NoUnclosedTag(raw) ==
  UnclosedAt(raw, ThinkOpen, ThinkClose) \cup UnclosedAt(raw, ToolOpen, ToolClose) = {}

\* C33: a buffer that ends with a non-empty proper prefix of one of the four
\* tags, from the single character "<" on, has that prefix removed from the
\* content and is pending; a buffer that ends in other tag-like text, such
\* as "<div", keeps that text in the content.
C33_DanglingPrefixStripped ==
  WholeParsed /\ fnArgs # <<>> =>
    LET last == fnArgs[Len(fnArgs)]
        content == ParsedWhole.content
    IN /\ last \in KnownPartialTags \cup {LessThan} =>
            ParsedWhole.pending /\ CountOf(content, last) < CountOf(fnArgs, last)
       /\ last \in OtherPartialTags /\ NoUnclosedTag(fnArgs) =>
            content # <<>> /\ content[Len(content)] = last

\* Turn t starts a round in this step.
RoundStarts(t) == turns'[t].round = turns[t].round + 1

\* C34: at the start of every round the tool schemas and the system prompt
\* sent to the model are those of the mode that is current at that moment:
\* after a toggle of the mode during a turn, every later round of the turn
\* uses the new mode.
C34_RoundUsesCurrentMode ==
  [][\A t \in Turns :
       RoundStarts(t) =>
         /\ turns'[t].tools = toolsFor(mode)
         /\ turns'[t].fullHistory[1].content = getSystemPrompt(mode)]_vars

\* Turn t has persisted a message and has another to persist: its stream or
\* one of its tool calls is running.
BetweenMessages(t) == turns[t].pc \in {"stream", "exec"}

\* C35: all the messages of one turn are persisted to the session that was
\* current when the turn started: no switch of the session, by /new, by the
\* loading of another session or by the token budget effect, takes place
\* between two persisted messages of a running turn.
C35_NoSwitchInsideTurn ==
  [][(\E t \in Turns : BetweenMessages(t)) => sessionRef' = sessionRef]_vars


\* The turn is between its start and its return.
InProgress(t) == turns[t].pc \in {"stream", "exec"}

\* The sendMessage call of turn t has returned.
Returned(t) == turns[t].pc = "done"

\* Where the bound MaxRounds of the model stops a turn.
CutShort(t) == turns[t].pc = "capped"

\* Every started turn returns.
C36_TurnReturns == \A t \in Turns : InProgress(t) ~> (Returned(t) \/ CutShort(t))

\* The step in which a turn returns leaves isLoading false and no abort handle.
C36_ReturnResets ==
  [][\A t \in Turns : (InProgress(t) /\ Returned(t)') =>
                        (isLoading' = FALSE /\ abortRef' = NoTurn)]_vars

\* A turn that has returned has no message still marked as streaming.
C36_EndedNotStreaming ==
  \A t \in Turns : Returned(t) => ~Has(streamingShown, t)

\* C36: every turn that starts eventually returns with isLoading false and
\* the abort handle cleared, however its last round ended; when the turn has
\* ended no displayed message is still marked as streaming.
C36_TurnEndsClean ==
  C36_TurnReturns /\ C36_ReturnResets /\ []C36_EndedNotStreaming


\* The text of a content is not the empty string: a notice or an error text
\* is never empty, a plain content is its body.
NonEmptyText(c) == c.tag # "" \/ c.body # <<>>

\* Row has content or at least one tool call.
SaysSomething(row) == NonEmptyText(row.content) \/ RowCalls(row) # <<>>

\* The content that stands in for an empty parsed content without tool
\* calls: the error text, the truncation notice over the raw buffer, or the
\* empty-response notice with the finish reason.
StandsInFor(c, rawBuffer, streamErrorMsg, finishReason) ==
  IF streamErrorMsg # "" THEN c = Content(<<>>, "error_only", streamErrorMsg)
  ELSE IF rawBuffer # <<>> THEN c = Content(rawBuffer, "truncated", "")
  ELSE c = Content(<<>>, "empty", finishReason)

\* C37: every assistant message persisted by the loop has non-empty content
\* or at least one tool call; when the parsed content and the tool-call list
\* are both empty the content is the truncation notice with the raw buffer
\* (raw buffer non-empty), the empty-response notice with the finish reason
\* (raw buffer empty), or the stream error text.
C37_AssistantSaysSomething ==
  /\ \A i \in 1..Len(messages) :
       IsAssistant(messages[i]) => SaysSomething(messages[i])
  /\ fnResult # <<>> =>
       LET r == fnResult[1]
           row == r.saved[Len(r.saved)]
       IN /\ Len(r.saved) = 1
          /\ IsAssistant(row)
          /\ SaysSomething(row)
          /\ RowCalls(row) = r.finalToolCalls
          /\ (r.parsedContent = <<>> /\ r.finalToolCalls = <<>>) =>
               StandsInFor(row.content, fnArgs.rawBuffer, r.streamErrorMsg,
                           fnArgs.finishReason)

\* C37 witness: a response that is one unclosed thinking tag was persisted
\* as a truncation notice over the raw buffer, without tool calls.
C37_Witness ==
  /\ fnResult # <<>>
  /\ fnArgs.rawBuffer = <<ThinkOpen>>
  /\ fnArgs.err = ""
  /\ fnResult[1].parsedContent = <<>>
  /\ fnResult[1].finalToolCalls = <<>>
  /\ fnResult[1].saved[1].content = Content(<<ThinkOpen>>, "truncated", "")

====
